---- MODULE Spec2Model ----
(***************************************************************************)
(* Sub-call dispatcher of the contracts module (process_execution_result)  *)
(* together with the entry points that call it.                            *)
(*                                                                         *)
(* A transaction is a stack of transaction contexts (ctxs) and a stack of  *)
(* activations of process_execution_result (frames).  The guest (WASM)     *)
(* code and the methods of other modules are untrusted: whatever they      *)
(* return, consume or write is drawn from small sets.                      *)
(*                                                                         *)
(* An ExecutionOk is its data and the number of its messages.  The fields  *)
(* of a message are drawn where the dispatcher first reads them: max_gas   *)
(* when the allowance is computed, method and body when the child runs,    *)
(* reply when the filter is applied; a guest numbers its messages, the id   *)
(* of a message being its position in the list.                            *)
(* Nothing reads them earlier, so the behaviours are those of a guest that *)
(* fixed them when it returned.                                            *)
(*                                                                         *)
(* Six specifications share the module, each leaving the variables of the  *)
(* others alone.  Spec follows one transaction through the dispatcher with *)
(* its gas, tags, messages and replies.  ModuleSpec follows the module's   *)
(* stored state (identifier counters, code and instance records, balances, *)
(* per-instance store) through any sequence of Upload, Instantiate, Call   *)
(* and Upgrade transactions and their sub-calls, with gas left out.        *)
(* EntrySpec follows Upload and Upgrade through dispatch_call with their   *)
(* gas, the sizes of the code and the checks of the validator.  GuestSpec  *)
(* follows one guest invocation, block by block, under its gas limit.      *)
(* AccountsSpec follows the balances of the accounts module through        *)
(* transfers, fee payments and the ends of blocks.  StorageSpec follows    *)
(* a contract's calls of the storage interface of the contract SDK, the    *)
(* keys and values passing through regions of the guest's linear memory.   *)
(***************************************************************************)
EXTENDS Integers, Sequences, FiniteSets, TLC

\* ---------------------------------------------------------------- bounds
\* fee.gas of the transaction, and the most gas one guest run uses.
MaxGasLimit == 3
MaxGuestGas == 1
\* The most gas a guest invocation of GuestSpec starts with, and the most
\* basic blocks an export runs before it returns or traps.
MaxGuestLimit == 3
MaxBlocks == 2
\* The most transactions of one signer that AccountsSpec authenticates.
MaxNonce == 2
\* Bytes of the guest's linear memory that StorageSpec follows.
MemSize == 3

\* ------------------------------------------------------------ parameters
\* Parameters.max_subcall_depth, Parameters.max_subcall_count and
\* GasCosts.subcall_dispatch, set to small values.
MaxSubcallDepth == 2
MaxSubcallCount == 2
SubcallDispatch == 1
\* GasCosts.tx_call, its default.
TxCallGas == 0

\* Longest message list a guest returns: one more than the count guard lets
\* through.
MaxMsgs == MaxSubcallCount + 1

U16Max == 65535
\* u64::MAX, scaled to the integers of the checker; no gas value of the model
\* comes near it.
U64Max == 2147483647

Instances == {1, 2}

\* NotifyReply
Never == 0
OnError == 1
OnSuccess == 2
Always == 3
NotifyReply == {Never, OnError, OnSuccess, Always}

\* Option<u64> of Message::Call.max_gas: NoGas is None.
NoGas == -1
MaxGasOpts == {NoGas, 1, MaxGasLimit + 1}

VARIABLES
    pc,      \* where the transaction's single thread of control is
    ctxs,    \* stack of transaction contexts, the top-level one first
    frames,  \* stack of activations of process_execution_result
    arg,     \* ExecutionOk handed to process_execution_result
    res,     \* result of the call that just ended in the top context
    reply,   \* Reply about to be delivered
    acct,    \* accounting of what was charged (history)
    last,    \* what the last step read and did (history, one step long)
    chain,   \* runtime state as of the last committed transaction
    hist,    \* identifiers returned by committed Uploads and Instantiates,
             \* each kind in the order of the commits (history)
    mpc,     \* where the transaction followed by ModuleSpec is
    mctxs,   \* its stack of transaction contexts
    mres,    \* result of the call that just ended in its top context
    mlast,   \* what its last step read and did (history, one step long)
    ustore,  \* runtime state followed by EntrySpec, with its parameters
    ulast,   \* the last transaction EntrySpec dispatched, and the bytes
             \* submitted for every stored code (history)
    guest,   \* the guest invocation followed by GuestSpec
    ledger,  \* state of the accounts module followed by AccountsSpec
    alast,   \* what its last step did (history, one step long)
    kstore,  \* the host's key-value store of each kind, of one instance
    kdone,   \* what the contract last did to each key it touched (history)
    klast    \* what the last storage call read and did (history, one step)

svars == <<pc, ctxs, frames, arg, res, reply, acct, last>>
mvars == <<chain, hist, mpc, mctxs, mres, mlast>>
evars == <<ustore, ulast>>
gvars == <<guest>>
avars == <<ledger, alast>>
kvars == <<kstore, kdone, klast>>
vars == <<pc, ctxs, frames, arg, res, reply, acct, last,
          chain, hist, mpc, mctxs, mres, mlast,
          ustore, ulast, guest, ledger, alast, kstore, kdone, klast>>

\* ------------------------------------------------------------- helpers
Top(s) == s[Len(s)]
Pop(s) == SubSeq(s, 1, Len(s) - 1)
Min(a, b) == IF a < b THEN a ELSE b

\* u64::saturating_mul, the product never formed when it would pass u64::MAX.
SaturatingMul(a, b) == IF b # 0 /\ a > U64Max \div b THEN U64Max ELSE a * b
SaturatingSub(a, b) == IF a > b THEN a - b ELSE 0

\* ------------------------------------------------------------- results
\* transaction::CallResult and Error::to_call_result.
Ok(data) == [ok |-> TRUE, data |-> data, module |-> "", code |-> 0, a |-> 0, b |-> 0]
Failed(module, code, a, b) ==
    [ok |-> FALSE, data |-> 0, module |-> module, code |-> code, a |-> a, b |-> b]

OutOfGas == Failed("core", 12, 0, 0)
ExecutionFailed == Failed("contracts", 12, 0, 0)
CallDepthExceeded(depth, max) == Failed("contracts", 16, depth, max)
TooManySubcalls(count, max) == Failed("contracts", 18, count, max)
OtherFailed == Failed("other", 1, 0, 0)

IsOutOfGas(r) == ~r.ok /\ r.module = "core" /\ r.code = 12

\* ------------------------------------------------------------- contexts
NoReply == [id |-> 0, result |-> Ok(0)]
NoArg == [data |-> 0, n |-> 0, contract |-> 0, kind |-> "none"]
NoRes == Ok(0)
\* A frame is one activation of process_execution_result: ctx is the level of
\* its context, contract and kind who returned the ExecutionOk and from which
\* entry point, total and left its messages and those not yet taken, data
\* its result_data; allow, rem and pre are max_gas, remaining_gas and what
\* the context held when the child now open was dispatched.  History: cur is
\* the position of the message being processed (0: none), open whether its
\* child context is open, done the number of messages wholly processed, own
\* the ExecutionOk's data and replies the processed data of the replies
\* delivered so far.
\*
\* History: charged is every amount passed to a use_tx_gas that succeeded
\* on the transaction's own account (not the child-gas charges); dispatched
\* the number of messages dispatched; and for the context at each level of
\* the stack, start the gas it had left when the processing of its call's
\* ExecutionOk began (its fee.gas before that) and kids the gas its children
\* consumed since.
NoAcct == [charged |-> 0, dispatched |-> 0, start |-> <<>>, kids |-> <<>>]
NoPre == [store |-> 0, tags |-> <<>>, msgs |-> <<>>]
Visible(c) == [store |-> c.store, tags |-> c.tags, msgs |-> c.msgs]
Did(kind) == [kind |-> kind]

\* core::Module::remaining_gas
RemainingGas(c) == SaturatingSub(c.limit, c.used)

\* core::Module::use_tx_gas: fails with out of gas, charging nothing, when the
\* limit would be exceeded.
UseTxGasOk(c, gas) == gas <= c.limit - c.used
UseTxGas(c, gas) == [c EXCEPT !.used = c.used + gas]

\* A transaction context as with_tx creates it: its own values, tags and
\* messages, over the parent's store.
NewCtx(depth, gas, store) ==
    [depth |-> depth, limit |-> gas, used |-> 0, store |-> store,
     tags |-> <<>>, msgs |-> <<>>]

\* Effects of a method of another module run in the context at level n of
\* the stack: a store write, a tag and a runtime message, each marked n.
Effects(c, eff, n) ==
    IF eff
    THEN [c EXCEPT !.store = n, !.tags = Append(c.tags, n), !.msgs = Append(c.msgs, n)]
    ELSE c

\* Effects of a guest run in the context at level n: a write to the
\* instance's store (the guest has no means to emit tags or messages).
Writes(c, eff, n) == IF eff THEN [c EXCEPT !.store = n] ELSE c

\* ------------------------------------------- process_execution_result
\* Depth guard off by one: one level too many.
DepthGuardLate(n, current_depth) == n > 0 /\ current_depth > MaxSubcallDepth

\* Depth guard (subcalls.rs 29-35).
DepthGuardFails(n, current_depth) == n > 0 /\ current_depth >= MaxSubcallDepth

\* The dispatch is charged once, not once per message.
DispatchChargeFlat(n) == IF n = 0 THEN 0 ELSE SubcallDispatch

\* The messages are charged for twice.
DispatchChargeTwice(n) == SaturatingMul(SubcallDispatch, n + n)

\* Only as many messages as may be dispatched are charged for.
DispatchChargeCapped(n) ==
    SaturatingMul(SubcallDispatch, IF n > MaxSubcallCount THEN MaxSubcallCount ELSE n)

\* Dispatch charge (subcalls.rs 44-51).
DispatchCharge(n) == SaturatingMul(SubcallDispatch, n)

\* messages.len().try_into() (subcalls.rs 54-58).
MessageCount(n) == IF n > U16Max THEN U16Max ELSE n

\* Count guard off by one: the limit itself is refused.
CountGuardEarly(n) == MessageCount(n) >= MaxSubcallCount \/ n > U16Max

\* Count guard (subcalls.rs 59-64).
CountGuardFails(n) == MessageCount(n) > MaxSubcallCount \/ n > U16Max

\* The child is given one unit when the parent has none left.
AllowanceFloor(remaining_gas, max_gas) ==
    LET m == IF max_gas = NoGas THEN remaining_gas ELSE max_gas
        k == IF m > remaining_gas THEN remaining_gas ELSE m
    IN IF k = 0 THEN 1 ELSE k

\* max_gas is taken as given, not clamped to what is left.
AllowanceUnclamped(remaining_gas, max_gas) ==
    IF max_gas = NoGas THEN remaining_gas ELSE max_gas

\* Gas the child may use (subcalls.rs 76-83).
Allowance(remaining_gas, max_gas) ==
    LET m == IF max_gas = NoGas THEN remaining_gas ELSE max_gas
    IN IF m > remaining_gas THEN remaining_gas ELSE m

\* The depth is copied to the child, not incremented.
ChildDepthSame(current_depth) == current_depth

\* Depth the child runs with (subcalls.rs 109).
ChildDepth(current_depth) == current_depth + 1

\* The depth is kept in one place shared by the whole transaction: setting
\* it for the child sets it for the caller too.
OpenChildShared(cs, max_gas, current_depth) ==
    Append([cs EXCEPT ![Len(cs)].depth = current_depth + 1],
           NewCtx(current_depth + 1, max_gas, Top(cs).store))

\* with_child + with_tx + the depth value (subcalls.rs 86-109): the child is
\* a new context on top of the stack, the contexts below are untouched.
OpenChild(cs, max_gas, current_depth) ==
    Append(cs, NewCtx(ChildDepth(current_depth), max_gas, Top(cs).store))

\* The child's tags are forwarded whatever the result.
CommitTagsAlways(child, ok) == child.tags

\* The child's overlay is committed whatever the result.
CommitStoreAlways(parent, child, ok) == child.store

\* What the child hands to its parent (subcalls.rs 117-133).
CommitStore(parent, child, ok) == IF ok THEN child.store ELSE parent.store
CommitTags(child, ok) == IF ok THEN child.tags ELSE <<>>
CommitMessages(child, ok) == IF ok THEN child.msgs ELSE <<>>

\* The parent is charged the whole allowance.
ChildChargeAll(max_gas, gas) == max_gas

\* Gas charged to the parent for the child (subcalls.rs 137).
ChildCharge(max_gas, gas) == SaturatingSub(max_gas, gas)

\* Always is taken to mean: whenever the call succeeded.
ShouldReplyOnSuccessOnly(r, ok) ==
    \/ r = OnError /\ ~ok
    \/ r = OnSuccess /\ ok
    \/ r = Always /\ ok

\* Reply filter (subcalls.rs 151-154).
ShouldReply(r, ok) ==
    \/ r = OnError /\ ~ok
    \/ r = OnSuccess /\ ok
    \/ r = Always

\* From<transaction::CallResult> for CallResult (message.rs 67-76).
IntoCallResult(r) ==
    IF r.ok THEN Ok(r.data) ELSE Failed(r.module, r.code, 0, 0)

\* The reply result overwrites the data even when it is empty.
OverwriteAlways(result_data, reply_result) == reply_result

\* Non-empty reply data overwrites (subcalls.rs 165-167).
Overwrite(result_data, reply_result) ==
    IF reply_result # 0 THEN reply_result ELSE result_data

\* The list is walked from its end.
MessageIndexReversed(total, left) == left

\* Position of the message the loop takes next, left messages of total being
\* still to take (subcalls.rs 67).
MessageIndex(total, left) == total - left + 1

\* Message::Call.id of the message at position k.
MessageId(k) == k

\* The reply is built from the child's result alone; the id is left at its
\* default.
MakeReplyNoId(id, result) == [id |-> 0, result |-> IntoCallResult(result)]

\* Reply::Call { id, result: result.into() } (subcalls.rs 156-159).
MakeReply(id, result) == [id |-> id, result |-> IntoCallResult(result)]

\* The error stops at the activation that met it: the activations below, in
\* the same context, go on.
DropTopFrame(fs, ci) ==
    IF fs # <<>> /\ Top(fs).ctx = ci THEN Pop(fs) ELSE fs

\* The activations are left as they are.
KeepFrames(fs, ci) == fs

\* Frames of the contexts below context ci: what is left when the call in
\* context ci returns an error through every `?`.
DropCtxFrames(fs, ci) == SelectSeq(fs, LAMBDA f : f.ctx < ci)

\* Where the call running in the top context returns to.
Finished(cs) == IF Len(cs) = 1 THEN "done" ELSE "ret"

\* Data a guest run in the context at level n returns: empty (0) or not.  The
\* guest's two free choices, to write and to return data, never meet in the
\* dispatcher (the store decides no branch and the data none but its own
\* overwriting), so one draw serves both: a guest that writes returns data.
GuestData(eff, n) == IF eff THEN n ELSE 0

\* Data a reply handler returns: empty, or a value that tells which reply it
\* was given (10 + id for a success, 20 + id for a failure).
ReplyData(eff, r) == IF eff THEN (IF r.result.ok THEN 10 ELSE 20) + r.id ELSE 0

\* ------------------------------------------------------- module state
\* Errors of the module (lib.rs 38-117).
InvalidArgument == Failed("contracts", 1, 0, 0)
CodeTooLarge(size, max) == Failed("contracts", 2, size, max)
CodeMalformed == Failed("contracts", 3, 0, 0)
CodeMissingRequiredExport(name) == Failed("contracts", 5, name, 0)
CodeDeclaresReservedExport(name) == Failed("contracts", 6, name, 0)
CodeDeclaresStartFunction == Failed("contracts", 7, 0, 0)
CodeDeclaresTooManyMemories == Failed("contracts", 8, 0, 0)
CodeNotFound == Failed("contracts", 9, 0, 0)
InstanceNotFound == Failed("contracts", 10, 0, 0)
Forbidden == Failed("contracts", 13, 0, 0)
Unsupported == Failed("contracts", 14, 0, 0)
InsufficientCallerBalance == Failed("contracts", 15, 0, 0)

\* u64::to_be_bytes: the k low bytes of n, the most significant first.
RECURSIVE BeBytes(_, _)
BeBytes(n, k) == IF k = 0 THEN <<>> ELSE Append(BeBytes(n \div 256, k - 1), n % 256)
ToBeBytes(n) == BeBytes(n, 8)

\* Address::from_module_raw: an address made of a module name and raw bytes.
AddressFromModuleRaw(module, raw) == [module |-> module, raw |-> raw]
NoAddress == AddressFromModuleRaw("", <<>>)

\* Instance::address_for (types.rs 83-85).
AddressFor(id) == AddressFromModuleRaw("contracts", ToBeBytes(id))

\* Addresses of the accounts that sign transactions.
Signer(k) == [module |-> "signer", raw |-> <<k>>]
Signers == {Signer(1), Signer(2)}

\* AuthInfo of a signed transaction: its signer, with a nonce and a fee that
\* are not zero.
TxAuth(signer) == [signer |-> signer, nonce |-> 1, fee |-> 1]

\* Policy (types.rs 12-21).
Nobody == [kind |-> "nobody", address |-> NoAddress]
PolicyAddress(a) == [kind |-> "address", address |-> a]
Everyone == [kind |-> "any", address |-> NoAddress]
Policies == {Nobody, Everyone, PolicyAddress(Signer(1))}

\* Address(a) lets every caller through.
PolicyEnforceLax(policy, caller) == policy.kind # "nobody"

\* Policy::enforce (types.rs 26-36): TRUE for Ok, FALSE for Forbidden.
PolicyEnforce(policy, caller) ==
    CASE policy.kind = "nobody" -> FALSE
      [] policy.kind = "address" -> policy.address = caller
      [] policy.kind = "any" -> TRUE

\* Identifiers and token lists that transactions name.
CodeIds == {0, 1}
InstanceIds == {0, 1}
TokenLists == {<<>>, <<1, 1>>, <<2, 1>>}
NoInstance == -1

\* Message counts of the ExecutionOk values the guests of ModuleSpec return:
\* none, one, and one more than the count guard lets through.
MsgCounts == {0, 1, MaxMsgs}

\* Stored maps.
EmptyMap == [x \in {} |-> 0]
Put(m, k, v) == [x \in (DOMAIN m) \cup {k} |-> IF x = k THEN v ELSE m[x]]

\* Parameters (lib.rs 163-190), max_code_size set to a small value, with the
\* gas costs of the entry points that ModuleSpec and EntrySpec follow.
MaxCodeSize == 2
Params(tx_upload, tx_upload_per_byte, tx_upgrade) ==
    [max_code_size |-> MaxCodeSize, tx_upload |-> tx_upload,
     tx_upload_per_byte |-> tx_upload_per_byte, tx_upgrade |-> tx_upgrade]
\* Default for GasCosts (lib.rs 145-161): the entry points cost nothing.
DefaultParams == Params(0, 0, 0)

\* State at genesis with parameters params: no code, no instance, the first
\* signer holds two units.
GenesisWith(params) ==
    [params |-> params, next_code |-> 0, next_inst |-> 0, codes |-> EmptyMap,
     bytecode |-> EmptyMap, insts |-> EmptyMap,
     bal |-> Put(EmptyMap, Signer(1), 2), kv |-> EmptyMap]
Genesis == GenesisWith(DefaultParams)

\* The gas of a transaction: fee.gas and what was used of it.
NewGas(limit) == [limit |-> limit, used |-> 0]
\* ModuleSpec leaves gas out: its transactions never run short.
Unmetered == NewGas(U64Max)

\* CodeId::increment, InstanceId::increment.
Increment(id) == id + 1

RECURSIVE SumTokens(_)
SumTokens(tokens) ==
    IF tokens = <<>> THEN 0 ELSE Head(tokens) + SumTokens(Tail(tokens))

\* An account holding nothing has no entry.
SetBalance(bal, a, v) ==
    IF v = 0 THEN [x \in (DOMAIN bal) \ {a} |-> bal[x]] ELSE Put(bal, a, v)

Balance(store, a) == IF a \in DOMAIN store.bal THEN store.bal[a] ELSE 0

\* Accounts::transfer: fails, changing nothing, when from holds less than
\* amount.
Transfer(store, from, to, amount) ==
    IF Balance(store, from) < amount
    THEN [ok |-> FALSE, store |-> store]
    ELSE LET b1 == SetBalance(store.bal, from, Balance(store, from) - amount)
             s1 == [store EXCEPT !.bal = b1]
             b2 == SetBalance(b1, to, Balance(s1, to) + amount)
         IN [ok |-> TRUE, store |-> [store EXCEPT !.bal = b2]]

\* A transfer that fails is skipped.
RECURSIVE TransferAllLenient(_, _, _, _)
TransferAllLenient(store, from, to, tokens) ==
    IF tokens = <<>> THEN [ok |-> TRUE, store |-> store]
    ELSE TransferAllLenient(Transfer(store, from, to, Head(tokens)).store,
                            from, to, Tail(tokens))

\* Transfer of the attached tokens (lib.rs 422-426, 455-459): in listed
\* order, stopping at the first that fails.
RECURSIVE TransferAll(_, _, _, _)
TransferAll(store, from, to, tokens) ==
    IF tokens = <<>> THEN [ok |-> TRUE, store |-> store]
    ELSE LET t == Transfer(store, from, to, Head(tokens))
         IN IF ~t.ok THEN t ELSE TransferAll(t.store, from, to, Tail(tokens))

\* The counter is read and left as it is.
AssignInstanceIdKept(store) == [id |-> store.next_inst, store |-> store]

\* The code counter is read and left as it is.
AssignCodeIdKept(store) == [id |-> store.next_code, store |-> store]

\* Assign next identifier (lib.rs 365-369, 405-411).
AssignCodeId(store) ==
    [id |-> store.next_code, store |-> [store EXCEPT !.next_code = Increment(@)]]
AssignInstanceId(store) ==
    [id |-> store.next_inst, store |-> [store EXCEPT !.next_inst = Increment(@)]]

\* Bytecode: how many bytes it has and how many its instrumented form has,
\* whether it parses, whether it declares a start function, how many
\* memories it declares and what it exports; metered once instrumented.
Wasm(size, inst, parses, start, memories, exports) ==
    [size |-> size, inst |-> inst, parses |-> parses, start |-> start,
     memories |-> memories, exports |-> exports, metered |-> FALSE]
RequiredExports == <<"allocate", "deallocate", "instantiate", "call">>
ReservedExports == <<"gas_limit">>
AllRequired == {RequiredExports[k] : k \in 1..Len(RequiredExports)}

\* Position in names of the first name that is (present) or is not (absent)
\* among exports; 0 when there is none.
FirstExport(names, exports, present) ==
    LET hits == {k \in 1..Len(names) : (names[k] \in exports) = present}
    IN IF hits = {} THEN 0 ELSE CHOOSE k \in hits : \A j \in hits : k <= j

\* The instrumented form of code.
Instrument(code) == [code EXCEPT !.size = code.inst, !.metered = TRUE]

\* A start function is let through.
ValidateAndTransformNoStart(code) ==
    IF ~code.parses THEN [ok |-> FALSE, result |-> CodeMalformed, code |-> code]
    ELSE IF code.memories > 1
    THEN [ok |-> FALSE, result |-> CodeDeclaresTooManyMemories, code |-> code]
    ELSE IF FirstExport(RequiredExports, code.exports, FALSE) # 0
    THEN [ok |-> FALSE, code |-> code,
          result |-> CodeMissingRequiredExport(
                         FirstExport(RequiredExports, code.exports, FALSE))]
    ELSE IF FirstExport(ReservedExports, code.exports, TRUE) # 0
    THEN [ok |-> FALSE, code |-> code,
          result |-> CodeDeclaresReservedExport(
                         FirstExport(ReservedExports, code.exports, TRUE))]
    ELSE [ok |-> TRUE, result |-> Ok(0), code |-> Instrument(code)]

\* wasm::validate_and_transform: the structural checks in the order the
\* validator is specified to make them, then the instrumentation.  The
\* names in the errors are positions in RequiredExports and ReservedExports.
ValidateAndTransform(code) ==
    IF ~code.parses THEN [ok |-> FALSE, result |-> CodeMalformed, code |-> code]
    ELSE IF code.start
    THEN [ok |-> FALSE, result |-> CodeDeclaresStartFunction, code |-> code]
    ELSE IF code.memories > 1
    THEN [ok |-> FALSE, result |-> CodeDeclaresTooManyMemories, code |-> code]
    ELSE IF FirstExport(RequiredExports, code.exports, FALSE) # 0
    THEN [ok |-> FALSE, code |-> code,
          result |-> CodeMissingRequiredExport(
                         FirstExport(RequiredExports, code.exports, FALSE))]
    ELSE IF FirstExport(ReservedExports, code.exports, TRUE) # 0
    THEN [ok |-> FALSE, code |-> code,
          result |-> CodeDeclaresReservedExport(
                         FirstExport(ReservedExports, code.exports, TRUE))]
    ELSE [ok |-> TRUE, result |-> Ok(0), code |-> Instrument(code)]

\* Hash::digest_bytes: equal for equal bytes, different for different bytes.
Digest(bytes) == [digest |-> bytes]

\* Bytecode that ModuleSpec uploads: one that is accepted and one that does
\* not parse.
GoodCode == Wasm(1, 2, TRUE, FALSE, 1, AllRequired)
BadCode == Wasm(1, 1, FALSE, FALSE, 0, {})
ModuleCodes == {GoodCode, BadCode}

\* The record is stored and the bytecode is not.
StoreCodeInfoOnly(store, id, hash, body, code) ==
    [store EXCEPT !.codes = Put(@, id, [id |-> id, hash |-> hash, abi |-> body.abi,
                                       instantiate_policy |-> body.instantiate_policy])]

\* store_code_info, store_code (lib.rs 371-381).
StoreCode(store, id, hash, body, code) ==
    [store EXCEPT !.codes = Put(@, id, [id |-> id, hash |-> hash, abi |-> body.abi,
                                       instantiate_policy |-> body.instantiate_policy]),
                  !.bytecode = Put(@, id, code)]

\* The record's id field is left at its default.
StoreInstanceNoId(store, id, creator, body) ==
    [store EXCEPT !.insts = Put(@, id, [id |-> 0, code_id |-> body.code_id,
                                       creator |-> creator,
                                       upgrades_policy |-> body.upgrades_policy])]

\* store_instance_info (lib.rs 413-420).
StoreInstance(store, id, creator, body) ==
    [store EXCEPT !.insts = Put(@, id, [id |-> id, code_id |-> body.code_id,
                                       creator |-> creator,
                                       upgrades_policy |-> body.upgrades_policy])]

\* Every byte of the instrumented form is charged.
InstrumentationDeltaFull(inst_code_size, code_size) == inst_code_size

\* The bytes the instrumentation added (lib.rs 358).
InstrumentationDelta(inst_code_size, code_size) ==
    SaturatingSub(inst_code_size, code_size)

\* The size of the instrumented form is not looked at.
InstTooLargeNever(inst_code_size, max_code_size) == FALSE

\* The second size check (lib.rs 350).
InstTooLarge(inst_code_size, max_code_size) == inst_code_size > max_code_size

\* The digest is that of the bytes submitted.
CodeHashOfInput(body, code) == Digest(body.code)

\* The digest of the instrumented bytes (lib.rs 341-342).
CodeHash(body, code) == Digest(code)

\* tx_upload (lib.rs 310-384), outside check-only mode: the result, the
\* store and the gas it leaves.
Upload(gas, store, body) ==
    LET params == store.params
        code_size == body.code.size
        c2 == SaturatingMul(params.tx_upload_per_byte, code_size)
        g1 == UseTxGas(gas, params.tx_upload)
        g2 == UseTxGas(g1, c2)
        v == ValidateAndTransform(body.code)
        code == v.code
        hash == CodeHash(body, code)
        inst_code_size == code.size
        c3 == SaturatingMul(params.tx_upload_per_byte,
                            InstrumentationDelta(inst_code_size, code_size))
        g3 == UseTxGas(g2, c3)
        a == AssignCodeId(store)
    IN IF code_size > params.max_code_size
       THEN [result |-> CodeTooLarge(code_size, params.max_code_size),
             store |-> store, gas |-> gas]
       ELSE IF ~UseTxGasOk(gas, params.tx_upload)
       THEN [result |-> OutOfGas, store |-> store, gas |-> gas]
       ELSE IF ~UseTxGasOk(g1, c2)
       THEN [result |-> OutOfGas, store |-> store, gas |-> g1]
       ELSE IF ~v.ok
       THEN [result |-> v.result, store |-> store, gas |-> g2]
       ELSE IF InstTooLarge(inst_code_size, params.max_code_size)
       THEN [result |-> CodeTooLarge(inst_code_size, params.max_code_size),
             store |-> store, gas |-> g2]
       ELSE IF ~UseTxGasOk(g2, c3)
       THEN [result |-> OutOfGas, store |-> store, gas |-> g2]
       ELSE [result |-> Ok(a.id), gas |-> g3,
             store |-> StoreCode(a.store, a.id, hash, body, code)]

\* Nothing is charged.
UpgradeFree(gas, store, body) ==
    [result |-> Unsupported, store |-> store, gas |-> gas]

\* tx_upgrade (lib.rs 472-478).
Upgrade(gas, store, body) ==
    IF ~UseTxGasOk(gas, store.params.tx_upgrade)
    THEN [result |-> OutOfGas, store |-> store, gas |-> gas]
    ELSE [result |-> Unsupported, store |-> store,
          gas |-> UseTxGas(gas, store.params.tx_upgrade)]

\* Gas of a guest invocation.  The debit of a basic block and of a
\* memory.grow, the least the instrumentation charges.
BlockCost == 1
GrowCost == 1

\* Nothing is debited.
DebitNothing(used, cost) == used

\* use_gas of the metering hook: cost is added to what was used.
Debit(used, cost) == used + cost

\* The gas left does not cover cost.
Exhausted(used, cost, limit) == cost > limit - used

\* The parameters EntrySpec starts from: the default, every cost one unit,
\* and a cost per byte so large that its products saturate.
EntryParams == {DefaultParams, Params(1, 1, 1), Params(0, U64Max, 0)}

\* fee.gas of the transactions EntrySpec dispatches.
GasLimits == {0, 1, 2, 3, U64Max}

\* Bytecode that EntrySpec uploads.  Accepted modules of every size up to one
\* byte more than max_code_size, the instrumentation taking one byte off,
\* adding none or adding one; and modules the validator rejects, each
\* breaking one rule, two breaking two.
SizedCodes ==
    {Wasm(n, m, TRUE, FALSE, 1, AllRequired) :
        n \in 0..(MaxCodeSize + 1), m \in 0..(MaxCodeSize + 1)}
AcceptedCodes ==
    {w \in SizedCodes : w.inst - w.size \in {-1, 0, 1}}
       \cup {Wasm(1, 1, TRUE, FALSE, 0, AllRequired)}
RejectedCodes ==
    {BadCode,
     Wasm(1, 1, TRUE, TRUE, 1, AllRequired),
     Wasm(1, 1, TRUE, FALSE, 2, AllRequired),
     Wasm(1, 1, TRUE, FALSE, 1, AllRequired \cup {"gas_limit"}),
     Wasm(1, 1, TRUE, TRUE, 2, AllRequired),
     Wasm(1, 1, TRUE, FALSE, 1, {"allocate", "gas_limit"})}
       \cup {Wasm(1, 1, TRUE, FALSE, 1, AllRequired \ {RequiredExports[k]}) :
                k \in 1..Len(RequiredExports)}
EntryCodes == AcceptedCodes \cup RejectedCodes

\* The arm of dispatch_call for method (lib.rs 527-566): cbor::from_value
\* fails on an argument that does not decode, and the handler runs on one
\* that does.
DispatchCall(method, decodes, gas, store, body) ==
    IF ~decodes THEN [result |-> InvalidArgument, store |-> store, gas |-> gas]
    ELSE IF method = "contracts.Upload" THEN Upload(gas, store, body)
    ELSE Upgrade(gas, store, body)

\* The identifier is assigned and the record stored before the policy is
\* looked at.
InstantiatePolicyLate(store, caller, body) ==
    LET a == AssignInstanceId(store)
        s1 == StoreInstance(a.store, a.id, caller, body)
    IN IF body.code_id \notin DOMAIN store.codes
       THEN [ok |-> FALSE, result |-> CodeNotFound, store |-> store, id |-> NoInstance]
       ELSE IF ~PolicyEnforce(store.codes[body.code_id].instantiate_policy, caller)
       THEN [ok |-> FALSE, result |-> Forbidden, store |-> s1, id |-> NoInstance]
       ELSE IF body.code_id \notin DOMAIN store.bytecode
       THEN [ok |-> FALSE, result |-> CodeNotFound, store |-> s1, id |-> NoInstance]
       ELSE LET t == TransferAll(s1, caller, AddressFor(a.id), body.tokens)
            IN IF ~t.ok
               THEN [ok |-> FALSE, result |-> InsufficientCallerBalance,
                     store |-> t.store, id |-> NoInstance]
               ELSE [ok |-> TRUE, result |-> Ok(a.id), store |-> t.store, id |-> a.id]

\* tx_instantiate up to the guest (lib.rs 400-426).
InstantiatePrepare(store, caller, body) ==
    IF body.code_id \notin DOMAIN store.codes
    THEN [ok |-> FALSE, result |-> CodeNotFound, store |-> store, id |-> NoInstance]
    ELSE IF ~PolicyEnforce(store.codes[body.code_id].instantiate_policy, caller)
    THEN [ok |-> FALSE, result |-> Forbidden, store |-> store, id |-> NoInstance]
    ELSE IF body.code_id \notin DOMAIN store.bytecode
    THEN [ok |-> FALSE, result |-> CodeNotFound, store |-> store, id |-> NoInstance]
    ELSE LET a == AssignInstanceId(store)
             s1 == StoreInstance(a.store, a.id, caller, body)
             t == TransferAll(s1, caller, AddressFor(a.id), body.tokens)
         IN IF ~t.ok
            THEN [ok |-> FALSE, result |-> InsufficientCallerBalance,
                  store |-> t.store, id |-> NoInstance]
            ELSE [ok |-> TRUE, result |-> Ok(a.id), store |-> t.store, id |-> a.id]

\* tx_call up to the guest (lib.rs 450-459).
CallPrepare(store, caller, body) ==
    IF body.id \notin DOMAIN store.insts
    THEN [ok |-> FALSE, result |-> InstanceNotFound, store |-> store, id |-> NoInstance]
    ELSE IF \/ store.insts[body.id].code_id \notin DOMAIN store.codes
            \/ store.insts[body.id].code_id \notin DOMAIN store.bytecode
    THEN [ok |-> FALSE, result |-> CodeNotFound, store |-> store, id |-> NoInstance]
    ELSE LET t == TransferAll(store, caller, AddressFor(body.id), body.tokens)
         IN IF ~t.ok
            THEN [ok |-> FALSE, result |-> InsufficientCallerBalance,
                  store |-> t.store, id |-> NoInstance]
            ELSE [ok |-> TRUE, result |-> Ok(0), store |-> t.store, id |-> body.id]

\* The contract of ModuleSpec writes to its instance's store when it is
\* called, not when it is instantiated.
GuestWrite(store, id, method) ==
    IF method = "call" THEN [store EXCEPT !.kv = Put(@, id, 1)] ELSE store

\* The sub-call is signed by whoever signed the transaction.
SubcallAuthOuter(id, tx_auth) == [signer |-> tx_auth.signer, nonce |-> 0, fee |-> 0]

\* AuthInfo of the synthetic transaction of a sub-call emitted by instance id
\* (subcalls.rs 91-104).
SubcallAuth(id, tx_auth) == [signer |-> AddressFor(id), nonce |-> 0, fee |-> 0]

\* A transaction context of ModuleSpec: who signed, the CallDepth, the store
\* as the context sees it, the identifiers returned by what was committed
\* into it (history), and once the guest has returned: the method, the
\* instance that ran, its messages not yet dispatched and the value to return.
MNewCtx(auth, depth, store) ==
    [auth |-> auth, depth |-> depth, store |-> store, log |-> <<>>,
     method |-> "none", inst |-> NoInstance, left |-> 0, ret |-> 0]

\* The child is committed into its parent whatever its result.
CommitChildAlways(parent, child, ok) ==
    [parent EXCEPT !.store = child.store, !.log = @ \o child.log]

\* The parent after the child's dispatch (subcalls.rs 117-133): the child's
\* store, and what it returned, on success; nothing of the child on failure.
CommitChild(parent, child, ok) ==
    [parent EXCEPT !.store = CommitStore(parent, child, ok),
                   !.log = IF ok THEN @ \o child.log ELSE @]

\* What the end of a transaction leaves in the runtime state: what its
\* context holds if it succeeded, what was there before if it failed.
Persist(committed, store, ok) == IF ok THEN store ELSE committed

NoMLast == [kind |-> "none"]
\* The parts of the state that a transaction's context holds changed.
Touched(committed, store) == {f \in DOMAIN committed : committed[f] # store[f]}

\* The identifiers committed so far, and those with the ones a committed
\* transaction returned (log, in the order of its commits) after them.
NoHist == [code |-> <<>>, instance |-> <<>>]
Logged(h, log) ==
    [code |-> h.code \o SelectSeq(log, LAMBDA e : e.kind = "code"),
     instance |-> h.instance \o SelectSeq(log, LAMBDA e : e.kind = "instance")]

DispatcherInit ==
    /\ pc = "idle"
    /\ ctxs = <<>>
    /\ frames = <<>>
    /\ arg = NoArg
    /\ res = NoRes
    /\ reply = NoReply
    /\ acct = NoAcct
    /\ last = Did("none")

ModuleInit ==
    /\ chain = Genesis
    /\ hist = NoHist
    /\ mpc = "idle"
    /\ mctxs = <<>>
    /\ mres = NoRes
    /\ mlast = NoMLast

\* ------------------------------------------------------ accounts module
\* Addresses with a key, and the two addresses of the module itself.
Alice == "alice"
Bob == "bob"
Charlie == "charlie"
ADDRESS_COMMON_POOL == "common-pool"
ADDRESS_FEE_ACCUMULATOR == "fee-accumulator"
Holders == {Alice, Bob, Charlie}
\* Those who sign the transactions AccountsSpec authenticates.
Payers == {Alice, Bob}
Addresses == Holders \cup {ADDRESS_COMMON_POOL, ADDRESS_FEE_ACCUMULATOR}
Denominations == {"NATIVE", "den1"}

\* BaseUnits: an amount of a denomination.
BaseUnits(amount, denomination) ==
    [amount |-> amount, denomination |-> denomination]

\* Errors of the accounts module and of the core module that
\* authenticate_tx returns.
AccountsOk == [ok |-> TRUE, module |-> "", name |-> ""]
InsufficientBalance ==
    [ok |-> FALSE, module |-> "accounts", name |-> "InsufficientBalance"]
InvalidNonce == [ok |-> FALSE, module |-> "core", name |-> "InvalidNonce"]
InsufficientFeeBalance ==
    [ok |-> FALSE, module |-> "core", name |-> "InsufficientFeeBalance"]

\* Genesis of the accounts module: the balances, the total supplies they add
\* up to, the nonces, and the fees paid in the block that is under way.
NoAmounts == [d \in Denominations |-> 0]
LedgerGenesis ==
    [balances |-> [a \in Addresses |->
                     IF a = Alice THEN [d \in Denominations |->
                                          IF d = "NATIVE" THEN 3 ELSE 1]
                     ELSE NoAmounts],
     total_supplies |-> [d \in Denominations |-> IF d = "NATIVE" THEN 3 ELSE 1],
     nonce |-> [a \in Payers |-> 0],
     block_fees |-> NoAmounts]

\* sub_amount and add_amount on the balance of one account.
SubAmount(l, a, u) ==
    [l EXCEPT !.balances[a][u.denomination] = @ - u.amount]
AddAmount(l, a, u) ==
    [l EXCEPT !.balances[a][u.denomination] = @ + u.amount]

\* The amount reaches the receiver and never leaves the sender.
AccountsTransferMint(l, from, to, u) ==
    [result |-> AccountsOk, ledger |-> AddAmount(l, to, u)]

\* Accounts::transfer: InsufficientBalance, nothing changed, when from holds
\* less than the amount; else the amount leaves from and reaches to.
AccountsTransfer(l, from, to, u) ==
    IF l.balances[from][u.denomination] < u.amount
    THEN [result |-> InsufficientBalance, ledger |-> l]
    ELSE [result |-> AccountsOk,
          ledger |-> AddAmount(SubAmount(l, from, u), to, u)]

\* Accounts::authenticate_tx: the nonce of the signer is checked, the fee is
\* moved from the payer to the fee accumulator and the nonce is incremented.
AuthenticateTx(l, payer, nonce, fee) ==
    IF nonce # l.nonce[payer]
    THEN [result |-> InvalidNonce, ledger |-> l]
    ELSE IF l.balances[payer][fee.denomination] < fee.amount
    THEN [result |-> InsufficientFeeBalance, ledger |-> l]
    ELSE LET l1 == AddAmount(SubAmount(l, payer, fee),
                             ADDRESS_FEE_ACCUMULATOR, fee)
         IN [result |-> AccountsOk,
             ledger |-> [l1 EXCEPT
                           !.nonce[payer] = @ + 1,
                           !.block_fees[fee.denomination] = @ + fee.amount]]

\* What the fee accumulator holds from earlier blocks.
PreviousFees(l) ==
    [d \in Denominations |->
        l.balances[ADDRESS_FEE_ACCUMULATOR][d] - l.block_fees[d]]
\* The share of each of n entities in fees.
Share(fees, n) ==
    [d \in Denominations |-> IF n = 0 THEN 0 ELSE fees[d] \div n]

\* Everything the accumulator holds is disbursed, the fees of the block that
\* is ending included.
EndBlockEager(l, good) ==
    LET n == Cardinality(good)
        fees == l.balances[ADDRESS_FEE_ACCUMULATOR]
        share == Share(fees, n)
    IN [l EXCEPT
          !.balances = [a \in Addresses |-> [d \in Denominations |->
              IF a = ADDRESS_FEE_ACCUMULATOR THEN 0
              ELSE IF a = ADDRESS_COMMON_POOL
              THEN l.balances[a][d] + (fees[d] - n * share[d])
                     + (IF a \in good THEN share[d] ELSE 0)
              ELSE l.balances[a][d] + (IF a \in good THEN share[d] ELSE 0)]],
          !.block_fees = NoAmounts]

\* Accounts::end_block: the fees of earlier blocks are split equally among
\* the good compute entities and what cannot be split goes to the common
\* pool; the fees of the block that is ending stay in the accumulator for
\* the next one.
EndBlock(l, good) ==
    LET n == Cardinality(good)
        fees == PreviousFees(l)
        share == Share(fees, n)
    IN [l EXCEPT
          !.balances = [a \in Addresses |-> [d \in Denominations |->
              IF a = ADDRESS_FEE_ACCUMULATOR THEN l.block_fees[d]
              ELSE IF a = ADDRESS_COMMON_POOL
              THEN l.balances[a][d] + (fees[d] - n * share[d])
                     + (IF a \in good THEN share[d] ELSE 0)
              ELSE l.balances[a][d] + (IF a \in good THEN share[d] ELSE 0)]],
          !.block_fees = NoAmounts]

\* Sum of the balances of the accounts in as, in denomination d.
RECURSIVE SumBalances(_, _, _)
SumBalances(l, as, d) ==
    IF as = {} THEN 0
    ELSE LET a == CHOOSE x \in as : TRUE
         IN l.balances[a][d] + SumBalances(l, as \ {a}, d)

\* Accounts::check_invariants: in every denomination the balances add up to
\* the total supply.
CheckInvariants(l) ==
    \A d \in Denominations : SumBalances(l, Addresses, d) = l.total_supplies[d]

\* What the transactions and blocks of AccountsSpec name.
Amounts == {0, 1, 2}
Fees == {BaseUnits(1, "NATIVE"), BaseUnits(3, "NATIVE")}
GoodComputeEntities == {{}, {Bob}, {Bob, Charlie}}

NoALast ==
    [kind |-> "none", from |-> Alice, to |-> Alice, units |-> BaseUnits(0, "NATIVE"),
     good |-> {}, result |-> AccountsOk, pre |-> LedgerGenesis]
LedgerIdle ==
    /\ ledger = LedgerGenesis
    /\ alast = NoALast

\* The guest invocation GuestSpec follows, before the host starts one.
NoGuest ==
    [phase |-> "idle", limit |-> 0, used |-> 0, allocate |-> "return",
     entry |-> "return", left |-> 0, entered |-> FALSE, result |-> NoRes]
GuestIdle == guest = NoGuest

\* The transactions EntrySpec dispatches start from a store whose parameters
\* are one of EntryParams; the other specifications leave it at genesis.
NoULast ==
    [kind |-> "none", decodes |-> TRUE, code |-> BadCode, limit |-> 0,
     result |-> NoRes, used |-> 0, pre |-> Genesis, sub |-> EmptyMap]
EntryIdle ==
    /\ ustore = Genesis
    /\ ulast = NoULast
EntryStart ==
    /\ \E params \in EntryParams : ustore = GenesisWith(params)
    /\ ulast = NoULast

\* ------------------------------------------------------ contract storage
\* StoreKind, and the keys and values the contract of StorageSpec uses: two
\* keys, and the empty value, one of one byte and one of two bytes.
StoreKinds == {"Public", "Confidential"}
StorageKeys == {<<1>>, <<2>>}
StorageValues == {<<>>, <<2>>, <<1, 2>>}

\* Option<Vec<u8>>.
None == [some |-> FALSE, value |-> <<>>]
Some(v) == [some |-> TRUE, value |-> v]

\* The guest's linear memory, and a region of it (HostRegion, HostRegionRef).
NoMem == [a \in 0..(MemSize - 1) |-> 0]
Region(offset, length) == [offset |-> offset, length |-> length]
\* Offsets at which a slice of the given length lies within the memory; an
\* empty slice may lie at its end.
Offsets(length) == 0..(MemSize - length)
\* Where the contract of StorageSpec keeps a key: at the start or at the end
\* of the memory.
KeyOffsets(length) == {0, MemSize - length}
\* Two regions share no byte.
Disjoint(r1, r2) ==
    \/ r1.length = 0
    \/ r2.length = 0
    \/ r1.offset + r1.length <= r2.offset
    \/ r2.offset + r2.length <= r1.offset
\* The memory with bytes at offset, and the bytes of a region
\* (HostRegion::into_vec; the host's copy out of and into the memory).
WriteRegion(mem, offset, bytes) ==
    [a \in DOMAIN mem |-> IF a >= offset /\ a < offset + Len(bytes)
                          THEN bytes[a - offset + 1] ELSE mem[a]]
ReadRegion(mem, region) ==
    [i \in 1..region.length |-> mem[region.offset + i - 1]]

\* MKVSStore::get, insert and remove (mkvs.rs 27-37) on the store m.
MkvsGet(m, key) == IF key \in DOMAIN m THEN Some(m[key]) ELSE None
MkvsInsert(m, key, value) == Put(m, key, value)
MkvsRemove(m, key) == [x \in (DOMAIN m) \ {key} |-> m[x]]

\* The host import storage.get: the key is read from the guest's memory; for
\* a key that is absent the region is (0, 0); for one that is present the
\* guest's allocate gives an offset, here o, the value is copied there and
\* the region is (o, length of the value).
HostGet(m, mem, key_region, o) ==
    LET v == MkvsGet(m, ReadRegion(mem, key_region))
    IN IF ~v.some THEN [region |-> Region(0, 0), mem |-> mem]
       ELSE [region |-> Region(o, Len(v.value)),
             mem |-> WriteRegion(mem, o, v.value)]
\* The host imports storage.insert and storage.remove.
HostInsert(m, mem, key_region, value_region) ==
    MkvsInsert(m, ReadRegion(mem, key_region), ReadRegion(mem, value_region))
HostRemove(m, mem, key_region) == MkvsRemove(m, ReadRegion(mem, key_region))

\* A region at offset 0 is taken for the absent key, whatever its length.
GetByOffset(m, mem, key_region, o) ==
    LET h == HostGet(m, mem, key_region, o)
    IN [region |-> h.region, mem |-> h.mem,
        result |-> IF h.region.offset = 0 THEN None
                   ELSE Some(ReadRegion(h.mem, h.region))]

\* storage::get (storage.rs 20-29) of the key at key_region, with the region
\* the host returned and the memory as the host left it.
Get(m, mem, key_region, o) ==
    LET h == HostGet(m, mem, key_region, o)
    IN [region |-> h.region, mem |-> h.mem,
        result |-> IF h.region.offset = 0 /\ h.region.length = 0 THEN None
                   ELSE Some(ReadRegion(h.mem, h.region))]

\* storage::insert (storage.rs 32-45) and storage::remove (48-54).
Insert(m, mem, key_region, value_region) == HostInsert(m, mem, key_region, value_region)
Remove(m, mem, key_region) == HostRemove(m, mem, key_region)

NoKLast ==
    [kind |-> "none", store |-> "Public", key |-> <<>>, region |-> Region(0, 0),
     mem |-> NoMem, result |-> None]
StorageIdle ==
    /\ kstore = [k \in StoreKinds |-> EmptyMap]
    /\ kdone = [k \in StoreKinds |-> EmptyMap]
    /\ klast = NoKLast

Init ==
    /\ DispatcherInit
    /\ ModuleInit
    /\ EntryIdle
    /\ GuestIdle
    /\ LedgerIdle
    /\ StorageIdle

EntryInit ==
    /\ DispatcherInit
    /\ ModuleInit
    /\ EntryStart
    /\ GuestIdle
    /\ LedgerIdle
    /\ StorageIdle

\* A transaction arrives: the batch dispatcher opens its context.
StartTx ==
    /\ UNCHANGED <<mvars, evars, gvars, avars, kvars>>
    /\ pc = "idle"
    /\ ctxs' = <<NewCtx(0, MaxGasLimit, 0)>>
    /\ pc' = "exec"
    /\ frames' = <<>>
    /\ arg' = NoArg
    /\ res' = NoRes
    /\ reply' = NoReply
    /\ acct' = [NoAcct EXCEPT !.start = <<MaxGasLimit>>, !.kids = <<0>>]
    /\ last' = Did("start")

\* The call in the top context fails with error e; cs is the context stack
\* with what was charged before the error.
Fail(cs, e) ==
    /\ ctxs' = cs
    /\ frames' = DropCtxFrames(frames, Len(cs))
    /\ res' = e
    /\ pc' = Finished(cs)
    /\ arg' = NoArg
    /\ reply' = NoReply

\* History of an entry point of kind of ("call", "reply") that ended as k, or
\* of the processing of its ExecutionOk of n messages: the contexts before
\* it, and for a reply the messages the emitting activation had yet to
\* dispatch.
Ended(k, of, n) ==
    [kind |-> k, of |-> of, n |-> n, ctxs |-> ctxs,
     left |-> IF of = "reply" THEN Top(frames).left ELSE 0]

\* A guest entry point (wasm::call, wasm::handle_reply) runs for contract i
\* in the top context: it uses gas, may write, and returns an ExecutionOk,
\* traps or runs out of gas.
Guest(i, kind, ac) ==
    \E eff \in BOOLEAN, g \in 0..Min(MaxGuestGas, RemainingGas(Top(ctxs))),
       out \in {"ok", "trap", "oog"} :
        LET c1 == Writes(UseTxGas(Top(ctxs), g), eff, Len(ctxs))
            cs == [ctxs EXCEPT ![Len(ctxs)] = c1]
            ac1 == [ac EXCEPT !.charged = @ + g]
        IN CASE out = "ok" ->
                /\ \E n \in 0..MaxMsgs :
                     arg' = [data |-> IF kind = "reply" THEN ReplyData(eff, reply)
                                      ELSE GuestData(eff, Len(ctxs)),
                             n |-> n,
                             contract |-> i, kind |-> kind]
                /\ ctxs' = cs
                /\ pc' = "per"
                /\ acct' = ac1
                /\ reply' = NoReply
                /\ last' = Did("guest")
                /\ UNCHANGED <<frames, res>>
             [] out = "trap" ->
                /\ Fail(cs, ExecutionFailed)
                /\ acct' = ac1
                /\ last' = Ended("trap", kind, 0)
             [] out = "oog" ->
                /\ Fail(cs, OutOfGas)
                /\ acct' = ac1
                /\ last' = Ended("oog", kind, 0)

\* Instances a call made at level n of the stack may name: any instance in a
\* sub-call; the instances being interchangeable, the transaction itself
\* calls the first.
Targets(n) == IF n = 1 THEN {1} ELSE Instances

\* tx_call (lib.rs 439-466) up to the call of process_execution_result.
ExecCall ==
    /\ UNCHANGED <<mvars, evars, gvars, avars, kvars>>
    /\ pc = "exec"
    /\ IF ~UseTxGasOk(Top(ctxs), TxCallGas)
       THEN /\ Fail(ctxs, OutOfGas)
            /\ UNCHANGED acct
            /\ last' = Did("oog")
       ELSE \E i \in Targets(Len(ctxs)) : Guest(i, "call", acct)

\* dispatch_tx_call of a method of another module, in a child context.
ExecOther ==
    /\ UNCHANGED <<mvars, evars, gvars, avars, kvars>>
    /\ pc = "exec"
    /\ Len(ctxs) > 1
    /\ \E eff \in BOOLEAN, g \in 0..Min(MaxGuestGas, RemainingGas(Top(ctxs))),
          out \in {"ok", "fail", "oog"} :
        LET c1 == Effects(UseTxGas(Top(ctxs), g), eff, Len(ctxs))
            cs == [ctxs EXCEPT ![Len(ctxs)] = c1]
            ac == [acct EXCEPT !.charged = @ + g]
        IN CASE out = "ok" ->
                /\ ctxs' = cs
                /\ res' = Ok(Len(ctxs))
                /\ pc' = "ret"
                /\ acct' = ac
                /\ last' = Did("other")
                /\ UNCHANGED <<frames, arg, reply>>
             [] out = "fail" ->
                /\ Fail(cs, OtherFailed)
                /\ acct' = ac
                /\ last' = Did("fail")
             [] out = "oog" ->
                /\ Fail(cs, OutOfGas)
                /\ acct' = ac
                /\ last' = Did("oog")

\* process_execution_result, entry (subcalls.rs 27-64).
ProcessEntry ==
    /\ UNCHANGED <<mvars, evars, gvars, avars, kvars>>
    /\ pc = "per"
    /\ LET c == Top(ctxs)
           n == arg.n
           current_depth == c.depth
           did == Ended("entry", arg.kind, n)
           ac0 == IF arg.kind = "call"
                  THEN [acct EXCEPT !.start[Len(ctxs)] = RemainingGas(c)]
                  ELSE acct
       IN /\ last' = did
          /\ IF DepthGuardFails(n, current_depth)
             THEN /\ Fail(ctxs, CallDepthExceeded(current_depth + 1, MaxSubcallDepth))
                  /\ acct' = ac0
             ELSE IF ~UseTxGasOk(c, DispatchCharge(n))
             THEN /\ Fail(ctxs, OutOfGas)
                  /\ acct' = ac0
             ELSE LET cs == [ctxs EXCEPT ![Len(ctxs)] = UseTxGas(c, DispatchCharge(n))]
                      ac1 == [ac0 EXCEPT !.charged = @ + SubcallDispatch * n]
                  IN IF CountGuardFails(n)
                     THEN /\ Fail(cs, TooManySubcalls(MessageCount(n), MaxSubcallCount))
                          /\ acct' = ac1
                     ELSE /\ ctxs' = cs
                          /\ frames' = Append(frames,
                                [ctx |-> Len(ctxs), contract |-> arg.contract,
                                 kind |-> arg.kind, depth |-> current_depth,
                                 total |-> n, left |-> n, data |-> arg.data,
                                 allow |-> 0, rem |-> 0, pre |-> NoPre,
                                 cur |-> 0, open |-> FALSE,
                                 own |-> arg.data, replies |-> <<>>, done |-> 0])
                          /\ pc' = "loop"
                          /\ arg' = NoArg
                          /\ acct' = ac1
                          /\ UNCHANGED <<res, reply>>

\* process_execution_result, one message: allowance and child context
\* (subcalls.rs 67-109).
Dispatch ==
    /\ UNCHANGED <<mvars, evars, gvars, avars, kvars>>
    /\ pc = "loop"
    /\ Top(frames).left > 0
    /\ LET f == Top(frames)
           c == Top(ctxs)
           remaining_gas == RemainingGas(c)
       IN \E mg \in MaxGasOpts :
            LET max_gas == Allowance(remaining_gas, mg)
            IN /\ ctxs' = OpenChild(ctxs, max_gas, f.depth)
               /\ frames' = [frames EXCEPT ![Len(frames)] =
                                [f EXCEPT !.left = @ - 1, !.allow = max_gas,
                                          !.rem = remaining_gas, !.pre = Visible(c),
                                          !.cur = MessageIndex(f.total, f.left),
                                          !.open = TRUE]]
               /\ pc' = "exec"
               /\ last' = [kind |-> "dispatch", max_gas |-> mg]
               /\ acct' = [acct EXCEPT !.dispatched = @ + 1,
                                       !.start = Append(@, max_gas),
                                       !.kids = Append(@, 0)]
    /\ UNCHANGED <<arg, res, reply>>

\* process_execution_result, after the child's dispatch: commit or revert,
\* charge, forward, reply filter (subcalls.rs 114-159).
ChildReturn ==
    /\ UNCHANGED <<mvars, evars, gvars, avars, kvars>>
    /\ pc = "ret"
    /\ LET child == Top(ctxs)
           parent == ctxs[Len(ctxs) - 1]
           f == Top(frames)
           below == SubSeq(ctxs, 1, Len(ctxs) - 2)
           gas == RemainingGas(child)
           p1 == [parent EXCEPT !.store = CommitStore(parent, child, res.ok)]
           charge == ChildCharge(f.allow, gas)
           ac == [acct EXCEPT !.start = Pop(@),
                              !.kids = [Pop(@) EXCEPT ![Len(ctxs) - 1] =
                                           @ + child.used]]
       IN IF ~UseTxGasOk(p1, charge)
          THEN /\ Fail(Append(below, p1), OutOfGas)
               /\ acct' = ac
               /\ last' = Did("oog")
          ELSE LET p2 == UseTxGas(p1, charge)
                   p3 == [p2 EXCEPT !.tags = @ \o CommitTags(child, res.ok),
                                    !.msgs = @ \o CommitMessages(child, res.ok)]
                   f1 == [f EXCEPT !.allow = 0, !.rem = 0, !.pre = NoPre,
                                   !.open = FALSE]
               IN \E r \in NotifyReply :
                  /\ ctxs' = Append(below, p3)
                  /\ last' = [kind |-> "returned", ok |-> res.ok, child |-> child,
                              pre |-> f.pre, allow |-> f.allow, rem |-> f.rem,
                              reply |-> r, result |-> res, index |-> f.cur,
                              data |-> f.data]
                  /\ res' = NoRes
                  /\ acct' = ac
                  /\ UNCHANGED arg
                  /\ IF ShouldReply(r, res.ok)
                     THEN /\ reply' = MakeReply(MessageId(f.cur), res)
                          /\ frames' = [frames EXCEPT ![Len(frames)] = f1]
                          /\ pc' = "reply"
                     ELSE /\ reply' = NoReply
                          /\ frames' = [frames EXCEPT ![Len(frames)] =
                                           [f1 EXCEPT !.cur = 0, !.done = @ + 1]]
                          /\ pc' = "loop"

\* wasm::handle_reply on the emitting contract (subcalls.rs 160).
HandleReply ==
    /\ UNCHANGED <<mvars, evars, gvars, avars, kvars>>
    /\ pc = "reply"
    /\ Guest(Top(frames).contract, "reply", acct)

\* process_execution_result returns Ok(result_data) (subcalls.rs 175), to
\* the reply processing of the activation below (subcalls.rs 161-167) or to
\* tx_call (lib.rs 467-469).
Return ==
    /\ UNCHANGED <<mvars, evars, gvars, avars, kvars>>
    /\ pc = "loop"
    /\ Top(frames).left = 0
    /\ LET f == Top(frames) IN
       IF f.kind = "reply"
       THEN LET g == frames[Len(frames) - 1] IN
            /\ frames' = Append(SubSeq(frames, 1, Len(frames) - 2),
                                [g EXCEPT !.data = Overwrite(g.data, f.data),
                                          !.replies = Append(@, f.data),
                                          !.cur = 0, !.done = @ + 1])
            /\ pc' = "loop"
            /\ UNCHANGED res
       ELSE /\ frames' = Pop(frames)
            /\ res' = Ok(f.data)
            /\ pc' = Finished(ctxs)
    /\ last' = [kind |-> "return", frame |-> Top(frames)]
    /\ UNCHANGED <<ctxs, arg, reply, acct>>

\* The transaction's result is handed back to the batch dispatcher.
Finish ==
    /\ UNCHANGED <<mvars, evars, gvars, avars, kvars>>
    /\ pc = "done"
    /\ pc' = "idle"
    /\ ctxs' = <<>>
    /\ frames' = <<>>
    /\ arg' = NoArg
    /\ res' = NoRes
    /\ reply' = NoReply
    /\ acct' = NoAcct
    /\ last' = Did("none")

Next ==
    \/ StartTx
    \/ ExecCall
    \/ ExecOther
    \/ ProcessEntry
    \/ Dispatch
    \/ ChildReturn
    \/ HandleReply
    \/ Return
    \/ Finish

Spec == Init /\ [][Next]_vars

\* Every step the module takes once a transaction has arrived.
Processing ==
    \/ ExecCall
    \/ ExecOther
    \/ ProcessEntry
    \/ Dispatch
    \/ ChildReturn
    \/ HandleReply
    \/ Return
    \/ Finish

\* The dispatch of a transaction is one sequential computation of the host:
\* once begun it goes on while it has a step to take.
FairSpec == Init /\ [][Next]_vars /\ WF_vars(Processing)

\* ------------------------------------------------------------ ModuleSpec
\* Where the call running in the top context of ModuleSpec returns to.
MFinished(cs) == IF Len(cs) = 1 THEN "done" ELSE "ret"

\* The call in the top context ends with result r, the context holding
\* store.
MEnd(store, r) ==
    /\ mctxs' = [mctxs EXCEPT ![Len(mctxs)].store = store]
    /\ mres' = r
    /\ mpc' = MFinished(mctxs)

\* The guest entry point has run for instance id in the top context, whose
\* store is now `store`: it trapped, or returned n messages that
\* process_execution_result takes up (subcalls.rs 27-64, gas left out).
MGuest(store, id, method, ret, out, n) ==
    LET c == Top(mctxs)
        s1 == GuestWrite(store, id, method)
    IN IF out = "trap" THEN MEnd(s1, ExecutionFailed)
       ELSE IF DepthGuardFails(n, c.depth)
       THEN MEnd(s1, CallDepthExceeded(c.depth + 1, MaxSubcallDepth))
       ELSE IF CountGuardFails(n)
       THEN MEnd(s1, TooManySubcalls(MessageCount(n), MaxSubcallCount))
       ELSE /\ mctxs' = [mctxs EXCEPT ![Len(mctxs)] =
                            [c EXCEPT !.store = s1, !.method = method, !.inst = id,
                                      !.left = n, !.ret = ret]]
            /\ mpc' = "loop"
            /\ mres' = NoRes

\* A signed transaction arrives: the batch dispatcher opens its context over
\* the committed state.
Submit ==
    /\ mpc = "idle"
    /\ \E signer \in Signers :
         mctxs' = <<MNewCtx(TxAuth(signer), 0, chain)>>
    /\ mpc' = "exec"
    /\ mres' = NoRes
    /\ mlast' = [kind |-> "submit"]
    /\ UNCHANGED <<chain, hist>>
    /\ UNCHANGED <<svars, evars, gvars, avars, kvars>>

\* contracts.Upload (lib.rs 310-384).
TxUpload ==
    /\ mpc = "exec"
    /\ Top(mctxs).store.next_code \in CodeIds
    /\ \E policy \in Policies, code \in ModuleCodes :
         LET c == Top(mctxs)
             body == [abi |-> "OasisV1", instantiate_policy |-> policy, code |-> code]
             u == Upload(Unmetered, c.store, body)
         IN /\ mctxs' = [mctxs EXCEPT ![Len(mctxs)] =
                            [c EXCEPT !.store = u.store,
                                      !.log = IF u.result.ok
                                              THEN Append(@, [kind |-> "code",
                                                              id |-> u.result.data])
                                              ELSE @]]
            /\ mres' = u.result
            /\ mpc' = MFinished(mctxs)
            /\ mlast' = [kind |-> "upload", caller |-> c.auth.signer, body |-> body,
                         pre |-> c.store]
    /\ UNCHANGED <<chain, hist>>
    /\ UNCHANGED <<svars, evars, gvars, avars, kvars>>

\* contracts.Instantiate (lib.rs 386-437).
TxInstantiate ==
    /\ mpc = "exec"
    /\ Top(mctxs).store.next_inst \in InstanceIds
    /\ \E code_id \in CodeIds, tokens \in TokenLists, out \in {"ok", "trap"},
          n \in MsgCounts :
         LET c == Top(mctxs)
             body == [code_id |-> code_id, upgrades_policy |-> Nobody,
                      tokens |-> tokens]
             p == InstantiatePrepare(c.store, c.auth.signer, body)
         IN /\ mlast' = [kind |-> "instantiate", caller |-> c.auth.signer,
                         body |-> body, pre |-> c.store, guest |-> p.ok,
                         id |-> p.id]
            /\ IF ~p.ok THEN MEnd(p.store, p.result)
               ELSE MGuest(p.store, p.id, "instantiate", p.id, out, n)
    /\ UNCHANGED <<chain, hist>>
    /\ UNCHANGED <<svars, evars, gvars, avars, kvars>>

\* contracts.Call (lib.rs 439-470).
TxCall ==
    /\ mpc = "exec"
    /\ \E id \in InstanceIds, tokens \in TokenLists, out \in {"ok", "trap"},
          n \in MsgCounts :
         LET c == Top(mctxs)
             body == [id |-> id, tokens |-> tokens]
             p == CallPrepare(c.store, c.auth.signer, body)
         IN /\ mlast' = [kind |-> "call", caller |-> c.auth.signer,
                         body |-> body, pre |-> c.store, guest |-> p.ok,
                         id |-> p.id]
            /\ IF ~p.ok THEN MEnd(p.store, p.result)
               ELSE MGuest(p.store, p.id, "call", 0, out, n)
    /\ UNCHANGED <<chain, hist>>
    /\ UNCHANGED <<svars, evars, gvars, avars, kvars>>

\* contracts.Upgrade (lib.rs 472-478).
TxUpgrade ==
    /\ mpc = "exec"
    /\ LET u == Upgrade(Unmetered, Top(mctxs).store, [id |-> 0])
       IN /\ MEnd(u.store, u.result)
          /\ mlast' = [kind |-> "upgrade", pre |-> Top(mctxs).store]
    /\ UNCHANGED <<chain, hist>>
    /\ UNCHANGED <<svars, evars, gvars, avars, kvars>>

\* process_execution_result, one message: the child context with its
\* synthetic transaction (subcalls.rs 67-109).
MDispatch ==
    /\ mpc = "loop"
    /\ Top(mctxs).left > 0
    /\ LET c == Top(mctxs)
           auth == SubcallAuth(c.inst, mctxs[1].auth)
       IN /\ mctxs' = Append([mctxs EXCEPT ![Len(mctxs)].left = @ - 1],
                             MNewCtx(auth, ChildDepth(c.depth), c.store))
          /\ mlast' = [kind |-> "dispatch", inst |-> c.inst]
    /\ mpc' = "exec"
    /\ UNCHANGED <<chain, hist, mres>>
    /\ UNCHANGED <<svars, evars, gvars, avars, kvars>>

\* process_execution_result, after the child's dispatch: commit or revert,
\* then the reply, whose handler may fail (subcalls.rs 112-170).
MChildReturn ==
    /\ mpc = "ret"
    /\ LET child == Top(mctxs)
           parent == mctxs[Len(mctxs) - 1]
           below == SubSeq(mctxs, 1, Len(mctxs) - 2)
           p1 == CommitChild(parent, child, mres.ok)
       IN \E handler \in {"quiet", "fail"} :
            /\ mctxs' = Append(below, p1)
            /\ mlast' = [kind |-> "returned", ok |-> mres.ok,
                         pre |-> parent.store]
            /\ IF handler = "fail"
               THEN /\ mres' = ExecutionFailed
                    /\ mpc' = MFinished(Append(below, p1))
               ELSE /\ mres' = NoRes
                    /\ mpc' = "loop"
    /\ UNCHANGED <<chain, hist>>
    /\ UNCHANGED <<svars, evars, gvars, avars, kvars>>

\* process_execution_result returns and the entry point with it
\* (lib.rs 434-436, 467-469).
MReturn ==
    /\ mpc = "loop"
    /\ Top(mctxs).left = 0
    /\ LET c == Top(mctxs)
       IN /\ mctxs' = [mctxs EXCEPT ![Len(mctxs)].log =
                          IF c.method = "instantiate"
                          THEN Append(@, [kind |-> "instance", id |-> c.ret])
                          ELSE @]
          /\ mres' = Ok(c.ret)
    /\ mpc' = MFinished(mctxs)
    /\ mlast' = [kind |-> "return"]
    /\ UNCHANGED <<chain, hist>>
    /\ UNCHANGED <<svars, evars, gvars, avars, kvars>>

\* The transaction ends: the batch dispatcher keeps its state if it
\* succeeded and drops it if it failed.
MFinish ==
    /\ mpc = "done"
    /\ chain' = Persist(chain, Top(mctxs).store, mres.ok)
    /\ hist' = IF mres.ok THEN Logged(hist, Top(mctxs).log) ELSE hist
    /\ mlast' = [kind |-> "end", ok |-> mres.ok, pre |-> chain,
                 touched |-> Touched(chain, Top(mctxs).store)]
    /\ mctxs' = <<>>
    /\ mres' = NoRes
    /\ mpc' = "idle"
    /\ UNCHANGED <<svars, evars, gvars, avars, kvars>>

MNext ==
    \/ Submit
    \/ TxUpload
    \/ TxInstantiate
    \/ TxCall
    \/ TxUpgrade
    \/ MDispatch
    \/ MChildReturn
    \/ MReturn
    \/ MFinish

ModuleSpec == Init /\ [][MNext]_vars


\* ---------------------------------------------------------- EntrySpec
\* contracts.Upload arrives through dispatch_call (lib.rs 527-536) in a
\* transaction whose fee.gas is limit: an argument that does not decode is
\* InvalidArgument before the handler runs; what the handler stored is kept
\* when it succeeds and dropped when it fails.
UUpload ==
    /\ UNCHANGED <<svars, mvars, gvars, avars, kvars>>
    /\ ustore.next_code \in CodeIds
    /\ \E code \in EntryCodes, limit \in GasLimits, decodes \in BOOLEAN :
         LET body == [abi |-> "OasisV1", instantiate_policy |-> Everyone,
                      code |-> code]
             d == DispatchCall("contracts.Upload", decodes, NewGas(limit),
                               ustore, body)
         IN /\ ustore' = Persist(ustore, d.store, d.result.ok)
            /\ ulast' = [kind |-> "upload", decodes |-> decodes, code |-> code,
                         limit |-> limit, result |-> d.result,
                         used |-> d.gas.used, pre |-> ustore,
                         sub |-> IF d.result.ok
                                 THEN Put(ulast.sub, d.result.data, code)
                                 ELSE ulast.sub]

\* contracts.Upgrade arrives through dispatch_call (lib.rs 557-566).
UUpgrade ==
    /\ UNCHANGED <<svars, mvars, gvars, avars, kvars>>
    /\ \E limit \in GasLimits, decodes \in BOOLEAN :
         LET d == DispatchCall("contracts.Upgrade", decodes, NewGas(limit),
                               ustore, [id |-> 0])
         IN /\ ustore' = Persist(ustore, d.store, d.result.ok)
            /\ ulast' = [kind |-> "upgrade", decodes |-> decodes,
                         code |-> BadCode, limit |-> limit,
                         result |-> d.result, used |-> d.gas.used,
                         pre |-> ustore, sub |-> ulast.sub]

ENext ==
    \/ UUpload
    \/ UUpgrade

EntrySpec == EntryInit /\ [][ENext]_vars

\* ---------------------------------------------------------- GuestSpec
\* One invocation of a contract by the host (wasm::instantiate, wasm::call)
\* under the transaction's gas limit.  The host calls the guest's allocate
\* to place the request and then the entry point.  The instrumented code
\* debits gas at the head of every basic block and at every memory.grow; a
\* debit the gas left does not cover traps the guest at once.  What an
\* export does is the guest's choice: it returns or traps after some
\* blocks, loops forever, or grows its memory forever.
Behaviours == {"return", "trap", "loop", "grow"}

\* The export that is running and what it does.
Running(g) == g.phase \in {"allocate", "entry"}
Behaviour(g) == IF g.phase = "allocate" THEN g.allocate ELSE g.entry

\* The host starts an invocation with limit gas left.
GInvoke ==
    /\ UNCHANGED <<svars, mvars, evars, avars, kvars>>
    /\ ~Running(guest)
    /\ \E limit \in 0..MaxGuestLimit, a \in Behaviours, e \in Behaviours,
          blocks \in 1..MaxBlocks :
         guest' = [phase |-> "allocate", limit |-> limit, used |-> 0,
                   allocate |-> a, entry |-> e, left |-> blocks,
                   entered |-> FALSE, result |-> NoRes]

\* The guest enters a basic block or calls memory.grow: the debit comes
\* first, and the guest traps out of gas when it is not covered.
GBlock ==
    /\ UNCHANGED <<svars, mvars, evars, avars, kvars>>
    /\ Running(guest)
    /\ Behaviour(guest) \in {"loop", "grow"} \/ guest.left > 0
    /\ LET cost == IF Behaviour(guest) = "grow" THEN GrowCost ELSE BlockCost
       IN IF Exhausted(guest.used, cost, guest.limit)
          THEN guest' = [guest EXCEPT !.phase = "done", !.result = OutOfGas,
                                      !.used = guest.limit]
          ELSE guest' = [guest EXCEPT
                            !.used = Debit(guest.used, cost),
                            !.left = IF Behaviour(guest) \in {"loop", "grow"}
                                     THEN @ ELSE @ - 1]

\* The running export returns: after allocate the host copies the request
\* and invokes the entry point; after the entry point the invocation ends.
GReturn ==
    /\ UNCHANGED <<svars, mvars, evars, avars, kvars>>
    /\ Running(guest)
    /\ Behaviour(guest) = "return"
    /\ guest.left = 0
    /\ IF guest.phase = "allocate"
       THEN \E blocks \in 1..MaxBlocks :
              guest' = [guest EXCEPT !.phase = "entry", !.entered = TRUE,
                                     !.left = blocks]
       ELSE guest' = [guest EXCEPT !.phase = "done", !.result = Ok(0)]

\* The running export traps: the invocation ends with ExecutionFailed.
GTrap ==
    /\ UNCHANGED <<svars, mvars, evars, avars, kvars>>
    /\ Running(guest)
    /\ Behaviour(guest) = "trap"
    /\ guest.left = 0
    /\ guest' = [guest EXCEPT !.phase = "done", !.result = ExecutionFailed]

\* A WASM invocation runs to a trap or a return: it has no suspension point.
GRun ==
    \/ GBlock
    \/ GReturn
    \/ GTrap

GNext ==
    \/ GInvoke
    \/ GBlock
    \/ GReturn
    \/ GTrap

GuestSpec == Init /\ [][GNext]_vars /\ WF_vars(GRun)

\* ------------------------------------------------------- AccountsSpec
\* Accounts::transfer between two accounts.
ATransfer ==
    /\ UNCHANGED <<svars, mvars, evars, gvars, kvars>>
    /\ \E from \in Holders, to \in Holders, amount \in Amounts,
          d \in Denominations :
         LET t == AccountsTransfer(ledger, from, to, BaseUnits(amount, d))
         IN /\ ledger' = t.ledger
            /\ alast' = [kind |-> "transfer", from |-> from, to |-> to,
                         units |-> BaseUnits(amount, d), good |-> {},
                         result |-> t.result, pre |-> ledger]

\* A transaction of payer is authenticated: its nonce is the signer's or the
\* one before.
AAuthenticate ==
    /\ UNCHANGED <<svars, mvars, evars, gvars, kvars>>
    /\ \E payer \in Payers, fee \in Fees, stale \in BOOLEAN :
         LET nonce == IF stale THEN ledger.nonce[payer] - 1
                      ELSE ledger.nonce[payer]
             t == AuthenticateTx(ledger, payer, nonce, fee)
         IN /\ ledger.nonce[payer] < MaxNonce
            /\ ledger' = t.ledger
            /\ alast' = [kind |-> "authenticate", from |-> payer,
                         to |-> ADDRESS_FEE_ACCUMULATOR, units |-> fee,
                         good |-> {}, result |-> t.result, pre |-> ledger]

\* The block ends with the good compute entities of its round.
AEndBlock ==
    /\ UNCHANGED <<svars, mvars, evars, gvars, kvars>>
    /\ \E good \in GoodComputeEntities :
         /\ ledger' = EndBlock(ledger, good)
         /\ alast' = [kind |-> "end_block", from |-> ADDRESS_FEE_ACCUMULATOR,
                      to |-> ADDRESS_COMMON_POOL,
                      units |-> BaseUnits(0, "NATIVE"), good |-> good,
                      result |-> AccountsOk, pre |-> ledger]

ANext ==
    \/ ATransfer
    \/ AAuthenticate
    \/ AEndBlock

AccountsSpec == Init /\ [][ANext]_vars

\* ---------------------------------------------------------- StorageSpec
\* The contract calls storage::insert with a value that lies at the start of
\* the memory or right after the key.
SInsert ==
    /\ \E kind \in StoreKinds, key \in StorageKeys, value \in StorageValues :
         \E ko \in KeyOffsets(Len(key)) :
         \E vo \in {0, ko + Len(key)} \cap Offsets(Len(value)) :
            LET key_region == Region(ko, Len(key))
                value_region == Region(vo, Len(value))
                mem == WriteRegion(WriteRegion(NoMem, ko, key), vo, value)
            IN /\ Disjoint(key_region, value_region)
               /\ kstore' = [kstore EXCEPT ![kind] =
                                Insert(@, mem, key_region, value_region)]
               /\ kdone' = [kdone EXCEPT ![kind] = Put(@, key, Some(value))]
               /\ klast' = [NoKLast EXCEPT !.kind = "insert"]
    /\ UNCHANGED <<svars, mvars, evars, gvars, avars>>

\* The contract calls storage::remove.
SRemove ==
    /\ \E kind \in StoreKinds, key \in StorageKeys :
         \E ko \in KeyOffsets(Len(key)) :
            LET key_region == Region(ko, Len(key))
                mem == WriteRegion(NoMem, ko, key)
            IN /\ kstore' = [kstore EXCEPT ![kind] = Remove(@, mem, key_region)]
               /\ kdone' = [kdone EXCEPT ![kind] = Put(@, key, None)]
               /\ klast' = [NoKLast EXCEPT !.kind = "remove"]
    /\ UNCHANGED <<svars, mvars, evars, gvars, avars>>

\* The contract calls storage::get; when the key is present the guest's
\* allocate places the value anywhere it fits clear of the key.
SGet ==
    /\ \E kind \in StoreKinds, key \in StorageKeys :
         \E ko \in KeyOffsets(Len(key)), o \in 0..MemSize :
            LET key_region == Region(ko, Len(key))
                mem == WriteRegion(NoMem, ko, key)
                v == MkvsGet(kstore[kind], key)
                g == Get(kstore[kind], mem, key_region, o)
            IN /\ IF v.some
                  THEN /\ o \in Offsets(Len(v.value))
                       /\ Disjoint(key_region, Region(o, Len(v.value)))
                  ELSE o = 0
               /\ klast' = [kind |-> "get", store |-> kind, key |-> key,
                            region |-> g.region, mem |-> g.mem,
                            result |-> g.result]
    /\ UNCHANGED <<kstore, kdone>>
    /\ UNCHANGED <<svars, mvars, evars, gvars, avars>>

SNext ==
    \/ SInsert
    \/ SRemove
    \/ SGet

StorageSpec == Init /\ [][SNext]_vars



\* ------------------------------------------------------------- properties
Range(s) == {s[k] : k \in 1..Len(s)}

\* C1: right after a child's dispatch has returned, the parent sees the
\* child's store, and the child's tags and runtime messages after its own,
\* if the child's result is a success; if it is a failure the parent's store,
\* tags and runtime messages are those it had when the message was dispatched.
C1_CommitOrRevert ==
    last.kind = "returned" =>
        LET p == Top(ctxs) IN
        IF last.ok
        THEN /\ p.store = last.child.store
             /\ p.tags = last.pre.tags \o last.child.tags
             /\ p.msgs = last.pre.msgs \o last.child.msgs
        ELSE Visible(p) = last.pre

\* A failed child that had written, tagged and sent has just been reverted
\* in a parent holding what an earlier, nested and successful sub-call
\* committed.
C1_Witness ==
    /\ last.kind = "returned"
    /\ ~last.ok
    /\ last.child.tags # <<>>
    /\ last.child.store # last.pre.store
    /\ Len(ctxs) = 1
    /\ 3 \in Range(ctxs[1].tags)

\* C2: process_execution_result fails with CallDepthExceeded(d+1, max) if and
\* only if the ExecutionOk has a message and the context's CallDepth d is at
\* least max_subcall_depth; when it does, the contexts are as they were (no
\* child opened, nothing dispatched, nothing charged).
DepthExceeded(d) ==
    /\ pc = Finished(ctxs)
    /\ res = CallDepthExceeded(d + 1, MaxSubcallDepth)
C2_DepthGuard ==
    last.kind = "entry" =>
        LET d == Top(last.ctxs).depth IN
        /\ DepthExceeded(d) <=> (last.n >= 1 /\ d >= MaxSubcallDepth)
        /\ DepthExceeded(d) => ctxs = last.ctxs

\* The guard has just rejected a message list at the maximum depth.
C2_Witness ==
    /\ last.kind = "entry"
    /\ last.n >= 1
    /\ Top(last.ctxs).depth = MaxSubcallDepth
    /\ res = CallDepthExceeded(MaxSubcallDepth + 1, MaxSubcallDepth)

\* C3: every child context runs one level deeper than its parent, no context
\* runs deeper than max_subcall_depth, and so no chain of nested sub-calls is
\* longer than max_subcall_depth.
C3_DepthBounded ==
    /\ \A i \in 2..Len(ctxs) : ctxs[i].depth = ctxs[i - 1].depth + 1
    /\ \A i \in 1..Len(ctxs) : ctxs[i].depth <= MaxSubcallDepth
    /\ Len(ctxs) <= MaxSubcallDepth + 1

\* A cycle 1 -> 2 -> 1 has reached the maximum depth and the messages of the
\* innermost call have been refused.
C3_Witness ==
    /\ Len(ctxs) = MaxSubcallDepth + 1
    /\ Len(frames) = 2
    /\ frames[1].contract = 1
    /\ frames[2].contract = 2
    /\ last.kind = "entry"
    /\ res = CallDepthExceeded(MaxSubcallDepth + 1, MaxSubcallDepth)

\* C4: when the transaction returns, the CallDepth of its context is 0, and
\* no step changes the CallDepth of a context that exists before and after it.
C4_DepthRestored ==
    [][/\ pc' = "done" => ctxs'[1].depth = 0
       /\ \A i \in 1..Min(Len(ctxs), Len(ctxs')) : ctxs'[i].depth = ctxs[i].depth]_vars

\* A transaction has returned successfully after a nested sub-call committed.
C4_Witness ==
    /\ pc = "done"
    /\ res.ok
    /\ 3 \in Range(ctxs[1].tags)
    /\ ctxs[1].depth = 0


\* What the entry of process_execution_result, having just run, was given.
EntryDepth == Top(last.ctxs).depth
EntryGas == RemainingGas(Top(last.ctxs))
EntryRejected == pc = Finished(ctxs) /\ ~res.ok
\* No child context was opened and no context changed but for gas.
NothingDispatched ==
    /\ Len(ctxs) = Len(last.ctxs)
    /\ \A i \in 1..Len(ctxs) : [ctxs[i] EXCEPT !.used = 0] = [last.ctxs[i] EXCEPT !.used = 0]

\* C5 as claimed: an ExecutionOk with more than max_subcall_count messages
\* makes process_execution_result fail with TooManySubcalls(count, max).
C5_AlwaysTooManySubcalls ==
    (last.kind = "entry" /\ last.n > MaxSubcallCount) =>
        /\ EntryRejected
        /\ res = TooManySubcalls(last.n, MaxSubcallCount)

\* C5 amended: an ExecutionOk with more than max_subcall_count messages makes
\* process_execution_result fail with nothing dispatched; the error is
\* CallDepthExceeded when the depth guard trips, out of gas when the dispatch
\* charge cannot be paid, and TooManySubcalls(count, max) otherwise, the
\* charge then staying charged.  A list of at most max_subcall_count
\* messages is never refused with TooManySubcalls.
C5_CountGuard ==
    last.kind = "entry" =>
        /\ last.n > MaxSubcallCount =>
            /\ EntryRejected
            /\ NothingDispatched
            /\ res = IF EntryDepth >= MaxSubcallDepth
                        THEN CallDepthExceeded(EntryDepth + 1, MaxSubcallDepth)
                     ELSE IF EntryGas < SubcallDispatch * last.n
                        THEN OutOfGas
                     ELSE TooManySubcalls(MessageCount(last.n), MaxSubcallCount)
        /\ (last.n <= MaxSubcallCount /\ EntryDepth < MaxSubcallDepth
                /\ EntryGas >= SubcallDispatch * last.n) =>
            /\ pc = "loop"
            /\ Top(frames).left = last.n

\* A list of max_subcall_count + 1 messages has been refused by the count
\* guard.
C5_Witness ==
    /\ last.kind = "entry"
    /\ last.n = MaxSubcallCount + 1
    /\ res = TooManySubcalls(MaxSubcallCount + 1, MaxSubcallCount)
    /\ EntryRejected

\* C6 as claimed: out of gas goes up through every enclosing level: when a
\* sub-call has failed with out of gas, the call that dispatched it fails
\* with out of gas too.
C6_OutOfGasReachesTop ==
    (last.kind = "returned" /\ IsOutOfGas(last.result)) =>
        /\ pc = Finished(ctxs)
        /\ IsOutOfGas(res)

\* Out of gas has just been raised in the top context.
RaisedOutOfGas ==
    \/ last.kind = "oog"
    \/ /\ last.kind = "entry"
       /\ ~(last.n > 0 /\ EntryDepth >= MaxSubcallDepth)
       /\ EntryGas < SubcallDispatch * last.n

\* C6 amended: out of gas raised in a context (by its entry charge, its
\* guest, a dispatch charge, a child-gas charge or a reply handler) ends the
\* call running in that context with out of gas, through every activation of
\* process_execution_result in that context: none of them dispatches,
\* delivers or returns success afterwards.  Raised in the transaction's own
\* context it fails the transaction; raised in a child it is that
\* sub-call's failed result.
C6_OutOfGasEndsContext ==
    RaisedOutOfGas =>
        /\ IsOutOfGas(res)
        /\ pc = Finished(ctxs)
        /\ Len(ctxs) = 1 => pc = "done"
        /\ \A k \in 1..Len(frames) : frames[k].ctx < Len(ctxs)

\* A reply handler of the transaction's contract ran out of gas after a
\* sub-call had been committed, and the transaction failed with it.
C6_Witness ==
    /\ last.kind = "oog"
    /\ pc = "done"
    /\ IsOutOfGas(res)
    /\ ctxs[1].tags # <<>>

\* C7: after a child's dispatch, succeeded or failed, the parent's remaining
\* gas is what it was when the allowance was computed less (allowance - the
\* child's remaining gas).
C7_ParentCharged ==
    last.kind = "returned" =>
        RemainingGas(Top(ctxs)) = last.rem - (last.allow - RemainingGas(last.child))

\* A failed child that used part of its allowance has been charged.
C7_Witness ==
    /\ last.kind = "returned"
    /\ ~last.ok
    /\ last.child.used > 0
    /\ last.child.used < last.allow
    /\ RemainingGas(Top(ctxs)) = last.rem - last.child.used

\* C8: the child's fee.gas is min(R, max_gas) when the message has a max_gas
\* and R when it has none, R being the parent's remaining gas; it never
\* exceeds R.
C8_Allowance ==
    last.kind = "dispatch" =>
        LET R == RemainingGas(ctxs[Len(ctxs) - 1])
            fee_gas == Top(ctxs).limit
        IN /\ fee_gas = IF last.max_gas = NoGas THEN R ELSE Min(R, last.max_gas)
           /\ fee_gas <= R

\* A second message asking for more than is left gets what is left.
C8_Witness ==
    /\ last.kind = "dispatch"
    /\ last.max_gas > RemainingGas(ctxs[Len(ctxs) - 1])
    /\ Top(ctxs).limit = RemainingGas(ctxs[Len(ctxs) - 1])
    /\ Top(ctxs).limit > 0
    /\ Top(frames).total - Top(frames).left = 2

\* Gas used by the open contexts: what the transaction's context will have
\* used once they have all returned.
RECURSIVE SumUsed(_)
SumUsed(cs) == IF cs = <<>> THEN 0 ELSE Top(cs).used + SumUsed(Pop(cs))

\* C9 as claimed: every ExecutionOk given to process_execution_result adds
\* subcall_dispatch for each of its messages to the gas charged (one whose
\* charge ran out of gas left out: a charge that failed is no charge).
C9_ChargedForEveryMessage ==
    (last.kind = "entry" /\ ~IsOutOfGas(res)) =>
        SumUsed(ctxs) = SumUsed(last.ctxs) + SubcallDispatch * last.n

\* C9 amended: the gas charged is the entry-point, guest and host-call
\* charges plus subcall_dispatch for every message of every ExecutionOk that
\* passed the depth guard and whose dispatch charge could be paid (a list
\* refused by the count guard included); a child's gas is charged to its
\* parent once, in full.
C9_GasAccounting ==
    /\ SumUsed(ctxs) = acct.charged
    /\ pc = "done" => ctxs[1].used = acct.charged

\* A transaction has returned after sub-calls two levels deep used gas.
C9_Witness ==
    /\ pc = "done"
    /\ 3 \in Range(ctxs[1].tags)
    /\ ctxs[1].used = MaxGasLimit
    /\ acct.charged = MaxGasLimit

\* C10: after a child's dispatch a reply is delivered exactly when
\* (reply, success) is (OnError, false), (OnSuccess, true), (Always, true) or
\* (Always, false); a reply is only ever delivered right after a child's
\* dispatch, once.
C10_ReplyFilter ==
    /\ last.kind = "returned" =>
        /\ pc \in {"reply", "loop"}
        /\ pc = "reply" <=>
              <<last.reply, last.ok>> \in
                 {<<OnError, FALSE>>, <<OnSuccess, TRUE>>, <<Always, TRUE>>, <<Always, FALSE>>}
    /\ pc = "reply" => last.kind = "returned"

\* A failed child's message asked for a reply on error and gets one.
C10_Witness ==
    /\ last.kind = "returned"
    /\ last.reply = Always
    /\ ~last.ok
    /\ pc = "reply"
    /\ ~reply.result.ok

\* The processed data of the last reply in rs that is not empty, own when
\* there is none.
RECURSIVE LastNonEmpty(_, _)
LastNonEmpty(rs, own) ==
    IF rs = <<>> THEN own
    ELSE IF Top(rs) # 0 THEN Top(rs)
    ELSE LastNonEmpty(Pop(rs), own)

\* C11: the result_data of every activation of process_execution_result is
\* the processed data of the last delivered reply whose processed data is not
\* empty, and the ExecutionOk's own data when there is none; that is what it
\* returns, to tx_call or as the processed data of the reply it handled; a
\* sub-call whose reply is not delivered leaves it as it was.
C11_ReturnedData ==
    /\ \A k \in 1..Len(frames) :
          frames[k].data = LastNonEmpty(frames[k].replies, frames[k].own)
    /\ last.kind = "return" =>
          LET f == last.frame IN
          IF f.kind = "reply"
          THEN Top(Top(frames).replies) = LastNonEmpty(f.replies, f.own)
          ELSE res = Ok(LastNonEmpty(f.replies, f.own))
    /\ (last.kind = "returned" /\ pc = "loop") => Top(frames).data = last.data

\* The transaction returns the data of its first reply, the second reply's
\* processed data being empty and its own data not.
C11_Witness ==
    /\ pc = "done"
    /\ last.kind = "return"
    /\ Len(last.frame.replies) = 2
    /\ last.frame.replies[1] # 0
    /\ last.frame.replies[2] = 0
    /\ last.frame.own # 0
    /\ res = Ok(last.frame.replies[1])

\* C12: in every activation the messages are taken in the order of the list,
\* one at a time: the message being processed is the one after those wholly
\* processed, an activation below the top one is in the middle of a message,
\* and every context but the top one has exactly one child context open.
C12_InOrder ==
    /\ \A k \in 1..Len(frames) :
          LET f == frames[k] IN
          /\ f.cur \in {0, f.done + 1}
          /\ f.total - f.left = f.done + (IF f.cur = 0 THEN 0 ELSE 1)
          /\ f.open => f.cur # 0
          /\ k < Len(frames) => f.cur # 0
          /\ f.ctx = Len(ctxs) => ~f.open
    /\ \A j \in 1..(Len(ctxs) - 1) :
          Cardinality({k \in 1..Len(frames) : frames[k].ctx = j /\ frames[k].open}) = 1

\* The second message of the transaction's list is dispatched after the
\* first has failed, its reply has been delivered and a sub-call emitted by
\* the reply handler has been committed.
C12_Witness ==
    /\ last.kind = "dispatch"
    /\ Len(frames) = 1
    /\ Top(frames).cur = 2
    /\ Top(frames).replies = <<21>>
    /\ ctxs[1].tags # <<>>

\* C13: a reply about to be delivered carries the id of the message whose
\* child has just returned and the child's result, Ok with its value or Failed
\* with its module and code; a reply handler runs for the contract whose
\* ExecutionOk held the message, in that contract's context, also when that
\* ExecutionOk was itself returned by a reply handler.
C13_Reply ==
    /\ pc = "reply" =>
          /\ last.kind = "returned"
          /\ reply.id = last.index
          /\ reply.result.ok = last.result.ok
          /\ last.result.ok => reply.result.data = last.result.data
          /\ ~last.result.ok =>
                /\ reply.result.module = last.result.module
                /\ reply.result.code = last.result.code
    /\ \A k \in 1..Len(frames) :
          frames[k].kind = "reply" =>
             /\ k > 1
             /\ frames[k].contract = frames[k - 1].contract
             /\ frames[k].ctx = frames[k - 1].ctx
    /\ (pc = "per" /\ arg.kind = "reply") =>
          /\ arg.contract = Top(frames).contract
          /\ Top(frames).ctx = Len(ctxs)

\* The second instance, called by the first, is about to get the reply to a
\* failed sub-call that it emitted from its own reply handler.
C13_Witness ==
    /\ pc = "reply"
    /\ Top(frames).kind = "reply"
    /\ Top(frames).contract = 2
    /\ reply.id = 1
    /\ ~reply.result.ok

\* C14: after a sub-call has failed, the emitting contract's context holds
\* what it held when the message was dispatched, the activation that emitted
\* the message goes on with the reply (for OnError and Always) or with the next
\* message, and the messages after the failed one are still to be taken.
C14_FailedSubcall ==
    (last.kind = "returned" /\ ~last.result.ok) =>
        /\ Visible(Top(ctxs)) = last.pre
        /\ pc \in {"reply", "loop"}
        /\ pc = "reply" <=> last.reply \in {OnError, Always}
        /\ Top(frames).ctx = Len(ctxs)
        /\ Top(frames).left = Top(frames).total - last.index

\* The transaction has returned success after its first sub-call failed and
\* its second succeeded, each with its reply delivered.
C14_Witness ==
    /\ pc = "done"
    /\ res.ok
    /\ last.kind = "return"
    /\ last.frame.replies = <<21, 12>>

CodeLog == hist.code
InstanceLog == hist.instance
Increasing(log) ==
    /\ log # <<>> => log[1].id = 0
    /\ \A i, j \in 1..Len(log) : i < j => log[i].id < log[j].id
Distinct(log) == \A i, j \in 1..Len(log) : i # j => log[i].id # log[j].id

C17_AllOrNothing ==
    /\ (mlast.kind = "end" /\ ~mlast.ok) => chain = mlast.pre
    /\ (mlast.kind = "returned" /\ ~mlast.ok) => Top(mctxs).store = mlast.pre

\* A transaction has failed after it had assigned an instance identifier,
\* moved tokens, written to the instance's store and committed an Upload
\* issued as a sub-call.
C17_Witness ==
    /\ mlast.kind = "end"
    /\ ~mlast.ok
    /\ {"next_inst", "insts", "next_code", "codes", "bal", "kv"} \subseteq mlast.touched
    /\ chain = mlast.pre

\* C18: Policy::enforce rejects for Nobody, accepts for Everyone and accepts
\* for Address(a) exactly the caller a, for every caller; an Instantiate of
\* an existing code is Forbidden exactly when the code's policy rejects its
\* caller, and then the store is as it was.
C18_PolicyEnforce ==
    /\ mlast.kind = "instantiate" =>
          /\ ~PolicyEnforce(Nobody, mlast.caller)
          /\ PolicyEnforce(Everyone, mlast.caller)
          /\ \A a \in Signers \cup {AddressFor(i) : i \in InstanceIds} :
                PolicyEnforce(PolicyAddress(a), mlast.caller) <=> (a = mlast.caller)
    /\ (mlast.kind = "instantiate" /\ mlast.body.code_id \in DOMAIN mlast.pre.codes) =>
          LET policy == mlast.pre.codes[mlast.body.code_id].instantiate_policy
              accepted == \/ policy.kind = "any"
                          \/ policy.kind = "address" /\ policy.address = mlast.caller
          IN /\ (mres = Forbidden) <=> ~accepted
             /\ (mres = Forbidden) => Top(mctxs).store = mlast.pre

\* A contract's sub-call tried to instantiate a code reserved to the first
\* signer and was refused.
C18_Witness ==
    /\ mlast.kind = "instantiate"
    /\ mlast.body.code_id \in DOMAIN mlast.pre.codes
    /\ mlast.pre.codes[mlast.body.code_id].instantiate_policy = PolicyAddress(Signer(1))
    /\ mlast.caller = AddressFor(0)
    /\ mres = Forbidden

\* C19: an Instantiate that ends Forbidden has assigned no identifier, stored
\* no record, moved no token and run no guest; an Upload of valid code
\* succeeds and records the policy it was given, whoever uploads and whatever
\* the policy.
C19_PolicyFirst ==
    /\ (mlast.kind = "instantiate" /\ mres = Forbidden) =>
          /\ Top(mctxs).store = mlast.pre
          /\ ~mlast.guest
          /\ mpc = MFinished(mctxs)
    /\ (mlast.kind = "upload" /\ ValidateAndTransform(mlast.body.code).ok) =>
          /\ mres.ok
          /\ Top(mctxs).store.codes[mres.data].instantiate_policy =
                mlast.body.instantiate_policy

\* The second signer's Instantiate with tokens attached was refused by a
\* policy that the second signer itself had uploaded for the first signer
\* alone or for nobody.
C19_Witness ==
    /\ mlast.kind = "instantiate"
    /\ mres = Forbidden
    /\ mlast.caller = Signer(2)
    /\ mlast.body.tokens # <<>>
    /\ mlast.pre.next_inst = 1

\* Whether a balance b pays the amounts of tokens one after the other, and
\* what it has paid when the first that it cannot pay is reached.
RECURSIVE Affordable(_, _)
Affordable(b, tokens) ==
    tokens = <<>> \/ (Head(tokens) <= b /\ Affordable(b - Head(tokens), Tail(tokens)))
RECURSIVE Paid(_, _)
Paid(b, tokens) ==
    IF tokens = <<>> \/ Head(tokens) > b THEN 0
    ELSE Head(tokens) + Paid(b - Head(tokens), Tail(tokens))

\* The instance an Instantiate or a Call, having just run, was for.
Target == IF mlast.kind = "call" THEN mlast.body.id ELSE mlast.pre.next_inst

\* C20: when the guest of an Instantiate or a Call has run, every attached
\* amount has been moved from the caller to the instance address; when the
\* caller cannot pay the amounts one after the other in listed order, the
\* call ends with InsufficientCallerBalance having moved the amounts before
\* the first it could not pay, and then no guest has run (the instance's
\* store is untouched) and no message is dispatched.
C20_TokensFirst ==
    (mlast.kind \in {"instantiate", "call"} /\ mlast.caller # AddressFor(Target)) =>
        LET from == mlast.caller
            to == AddressFor(Target)
            tokens == mlast.body.tokens
            had == Balance(mlast.pre, from)
            store == Top(mctxs).store
        IN /\ mlast.guest =>
                /\ Affordable(had, tokens)
                /\ Balance(store, from) = had - SumTokens(tokens)
                /\ Balance(store, to) = Balance(mlast.pre, to) + SumTokens(tokens)
           /\ (~Affordable(had, tokens)
                  /\ mres \notin {CodeNotFound, InstanceNotFound, Forbidden}) =>
                mres = InsufficientCallerBalance
           /\ (mres = InsufficientCallerBalance) =>
                /\ ~Affordable(had, tokens)
                /\ ~mlast.guest
                /\ store.kv = mlast.pre.kv
                /\ Balance(store, from) = had - Paid(had, tokens)
                /\ Balance(store, to) = Balance(mlast.pre, to) + Paid(had, tokens)
                /\ mpc = MFinished(mctxs)
                /\ Top(mctxs).left = 0

\* A Call with two amounts attached has moved the first and failed on the
\* second.
C20_Witness ==
    /\ mlast.kind = "call"
    /\ mlast.body.tokens = <<2, 1>>
    /\ mres = InsufficientCallerBalance
    /\ Balance(mlast.pre, mlast.caller) = 2
    /\ Balance(Top(mctxs).store, AddressFor(mlast.body.id)) =
          Balance(mlast.pre, AddressFor(mlast.body.id)) + 2

\* The Instantiate that has just run named a code that a committed Upload
\* returned, and the code's policy lets its caller through.
InstantiateOfCommitted ==
    /\ mlast.kind = "instantiate"
    /\ mlast.body.code_id \in DOMAIN chain.codes
    /\ \E k \in 1..Len(CodeLog) : CodeLog[k].id = mlast.body.code_id
    /\ PolicyEnforce(chain.codes[mlast.body.code_id].instantiate_policy,
                     mlast.caller)

\* C21 as claimed: an Instantiate of a code id returned by a committed
\* Upload, by a caller the code's policy lets through, succeeds.
C21_InstantiateSucceeds ==
    InstantiateOfCommitted => mres.ok

\* C21 amended: such an Instantiate never fails with CodeNotFound or
\* Forbidden; when it fails, a transfer of its tokens failed, its guest
\* failed or a guard refused the guest's messages (gas is left out here);
\* and when an Instantiate returns, the identifier it returns is held by no
\* committed instance and was returned by no committed Instantiate.
C21_InstantiateAfterUpload ==
    /\ InstantiateOfCommitted =>
          /\ mres \notin {CodeNotFound, Forbidden}
          /\ ~mres.ok =>
                /\ mpc = MFinished(mctxs)
                /\ \/ mres = InsufficientCallerBalance /\ ~mlast.guest
                   \/ mres = ExecutionFailed /\ mlast.guest
                   \/ mres.code = 16 /\ mlast.guest
                   \/ mres.code = 18 /\ mlast.guest
    /\ (mlast.kind = "return" /\ Top(mctxs).method = "instantiate") =>
          /\ mres.ok
          /\ mres.data = Top(mctxs).inst
          /\ mres.data \notin DOMAIN chain.insts
          /\ \A k \in 1..Len(InstanceLog) : InstanceLog[k].id # mres.data
          /\ mres.data \in DOMAIN Top(mctxs).store.insts

\* The second signer's Instantiate of a committed code returns the second
\* instance identifier, the first being committed.
C21_Witness ==
    /\ mlast.kind = "return"
    /\ Top(mctxs).method = "instantiate"
    /\ mctxs[1].auth.signer = Signer(2)
    /\ Len(mctxs) = 1
    /\ mres = Ok(1)
    /\ chain.next_inst = 1
    /\ 0 \in DOMAIN chain.insts

\* Every Code record, bytecode and Instance record of old is in new as it is
\* in old.
Keeps(old, new) ==
    /\ \A id \in DOMAIN old.codes :
          id \in DOMAIN new.codes /\ new.codes[id] = old.codes[id]
    /\ \A id \in DOMAIN old.bytecode :
          id \in DOMAIN new.bytecode /\ new.bytecode[id] = old.bytecode[id]
    /\ \A id \in DOMAIN old.insts :
          id \in DOMAIN new.insts /\ new.insts[id] = old.insts[id]

\* C23: the Code records, bytecodes and Instance records that are committed
\* are, unchanged, in the store of every open context, those of a context
\* are in the store of its child, those a context held before an operation,
\* a sub-call's return or the end of a transaction are there after it; and a
\* Call, its guest included, changes nothing but the per-instance store and
\* the balances.
C23_RecordsKept ==
    /\ \A i \in 1..Len(mctxs) :
          /\ Keeps(chain, mctxs[i].store)
          /\ i > 1 => Keeps(mctxs[i - 1].store, mctxs[i].store)
    /\ mlast.kind \in {"upload", "instantiate", "call", "upgrade", "returned"} =>
          Keeps(mlast.pre, Top(mctxs).store)
    /\ mlast.kind = "end" => Keeps(mlast.pre, chain)
    /\ mlast.kind = "call" =>
          [Top(mctxs).store EXCEPT !.kv = EmptyMap, !.bal = EmptyMap] =
             [mlast.pre EXCEPT !.kv = EmptyMap, !.bal = EmptyMap]

\* A Call of a committed instance, with two codes committed, has moved tokens
\* and written to the instance's store.
C23_Witness ==
    /\ mlast.kind = "call"
    /\ mlast.guest
    /\ mlast.body.id \in DOMAIN chain.insts
    /\ DOMAIN chain.codes = {0, 1}
    /\ Top(mctxs).store.kv # mlast.pre.kv
    /\ Top(mctxs).store.bal # mlast.pre.bal

\* ------------------------------------------------- properties, EntrySpec
\* The product a * b of two u64 values, capped at u64::MAX.
Capped(a, b) == IF b = 0 \/ a <= U64Max \div b THEN a * b ELSE U64Max

\* The last transaction was an Upload (an Upgrade) whose argument decoded.
Uploaded == ulast.kind = "upload" /\ ulast.decodes
Upgraded == ulast.kind = "upgrade"

\* C22 as stated: contracts.Upgrade returns Unsupported for every request
\* body and every gas budget, and modifies nothing.
C22_AlwaysUnsupported ==
    Upgraded => ulast.result = Unsupported /\ ustore = ulast.pre

\* C22: contracts.Upgrade never succeeds and never modifies any code,
\* instance or per-instance state; it returns InvalidArgument when the
\* request body does not decode, the core out-of-gas error when the gas left
\* does not cover tx_upgrade, and otherwise Unsupported, tx_upgrade charged.
C22_UpgradeUnsupported ==
    Upgraded =>
      /\ ustore = ulast.pre
      /\ ~ulast.decodes => ulast.result = InvalidArgument /\ ulast.used = 0
      /\ ulast.decodes /\ ulast.limit < ulast.pre.params.tx_upgrade
           => ulast.result = OutOfGas
      /\ ulast.decodes /\ ulast.limit >= ulast.pre.params.tx_upgrade
           => /\ ulast.result = Unsupported
              /\ ulast.used = ulast.pre.params.tx_upgrade

C22_Witness ==
    /\ Upgraded
    /\ ulast.result = Unsupported
    /\ ulast.used = 1
    /\ DOMAIN ustore.codes # {}

\* The module ulast.code passes every structural check of the validator.
WellFormed(code) ==
    /\ code.parses
    /\ ~code.start
    /\ code.memories <= 1
    /\ AllRequired \subseteq code.exports
    /\ "gas_limit" \notin code.exports

\* The gas of the transaction covers the two charges made before validation.
ChargesCovered ==
    ulast.pre.params.tx_upload
      + Capped(ulast.pre.params.tx_upload_per_byte, ulast.code.size)
        <= ulast.limit

IsCodeTooLarge(r) == ~r.ok /\ r.module = "contracts" /\ r.code = 2

\* C24: an Upload is rejected with CodeTooLarge(size, max_code_size) when the
\* submitted code is longer than max_code_size, before any gas is charged,
\* or when its instrumented form is, and only then; code of exactly
\* max_code_size bytes passes; every stored bytecode is at most
\* max_code_size long; a rejected Upload assigns no id and stores nothing.
C24_CodeTooLarge ==
    /\ \A id \in DOMAIN ustore.bytecode :
         ustore.bytecode[id].size <= ustore.params.max_code_size
    /\ Uploaded =>
         LET max == ulast.pre.params.max_code_size
             n == ulast.code.size
             m == ulast.code.inst
         IN /\ n > max => ulast.result = CodeTooLarge(n, max) /\ ulast.used = 0
            /\ n <= max /\ ChargesCovered /\ WellFormed(ulast.code) /\ m > max
                 => ulast.result = CodeTooLarge(m, max)
            /\ IsCodeTooLarge(ulast.result) => n > max \/ m > max
            /\ n = max /\ m <= max => ~IsCodeTooLarge(ulast.result)
            /\ ~ulast.result.ok => ustore = ulast.pre

C24_Witness ==
    /\ Uploaded
    /\ ulast.code.size = MaxCodeSize
    /\ ulast.result = CodeTooLarge(MaxCodeSize + 1, MaxCodeSize)
    /\ ulast.used > 0
    /\ DOMAIN ulast.pre.codes # {}
    /\ ustore = ulast.pre

\* C25: a successful Upload of n bytes whose instrumented form has m bytes
\* is charged tx_upload + tx_upload_per_byte * n + tx_upload_per_byte *
\* max(0, m - n), each product capped at u64::MAX.
C25_UploadGas ==
    Uploaded /\ ulast.result.ok =>
      LET params == ulast.pre.params
          n == ulast.code.size
          m == ulast.code.inst
      IN ulast.used = params.tx_upload
                        + Capped(params.tx_upload_per_byte, n)
                        + Capped(params.tx_upload_per_byte,
                                 IF m > n THEN m - n ELSE 0)

C25_Witness ==
    /\ Uploaded
    /\ ulast.result.ok
    /\ ulast.code.inst > ulast.code.size
    /\ ulast.code.size > 0
    /\ ulast.used = 3

\* C26: the hash of every Code record is the digest of the bytecode stored
\* under its id; that bytecode is the instrumented form of the bytes that
\* were submitted, not those bytes; codes uploaded from the same bytes have
\* equal hashes.
C26_HashOfInstrumented ==
    /\ DOMAIN ustore.codes = DOMAIN ustore.bytecode
    /\ DOMAIN ustore.codes = DOMAIN ulast.sub
    /\ \A id \in DOMAIN ustore.codes :
         /\ ustore.codes[id].hash = Digest(ustore.bytecode[id])
         /\ ustore.bytecode[id] = Instrument(ulast.sub[id])
         /\ ustore.bytecode[id] # ulast.sub[id]
         /\ ustore.codes[id].hash # Digest(ulast.sub[id])
    /\ \A i \in DOMAIN ulast.sub, j \in DOMAIN ulast.sub :
         ulast.sub[i] = ulast.sub[j] => ustore.codes[i].hash = ustore.codes[j].hash

C26_Witness ==
    /\ Uploaded
    /\ ulast.result.ok
    /\ DOMAIN ustore.codes = {0, 1}
    /\ ulast.sub[0] = ulast.sub[1]
    /\ ulast.sub[0].inst # ulast.sub[0].size
    /\ ustore.codes[0].hash = ustore.codes[1].hash

\* How many of the four structural rules code breaks.
Violations(code) ==
    (IF code.start THEN 1 ELSE 0)
      + (IF code.memories > 1 THEN 1 ELSE 0)
      + (IF AllRequired \subseteq code.exports THEN 0 ELSE 1)
      + (IF "gas_limit" \in code.exports THEN 1 ELSE 0)

\* The Upload got as far as the validator.
Validated ==
    /\ Uploaded
    /\ ulast.code.size <= ulast.pre.params.max_code_size
    /\ ChargesCovered

IsValidationError(r) ==
    ~r.ok /\ r.module = "contracts" /\ r.code \in {3, 5, 6, 7, 8}

\* C27: validate_and_transform accepts a parsable module if and only if it
\* declares no start function and at most one memory, exports allocate,
\* deallocate, instantiate and call, and exports no reserved name; a module
\* breaking exactly one rule gets the error of that rule, the missing or
\* reserved name in it; unparsable bytes get CodeMalformed.
C27_ValidatorFailsClosed ==
    Validated =>
      LET code == ulast.code
          r == ulast.result
      IN /\ IsValidationError(r) <=> ~WellFormed(code)
         /\ ~code.parses => r = CodeMalformed
         /\ code.parses /\ Violations(code) = 1 =>
              /\ code.start => r = CodeDeclaresStartFunction
              /\ code.memories > 1 => r = CodeDeclaresTooManyMemories
              /\ "gas_limit" \in code.exports
                   => r = CodeDeclaresReservedExport(1)
              /\ \A k \in 1..Len(RequiredExports) :
                   RequiredExports[k] \notin code.exports
                     => r = CodeMissingRequiredExport(k)

C27_Witness ==
    /\ Validated
    /\ ulast.code.parses
    /\ ulast.code.start
    /\ Violations(ulast.code) = 1
    /\ ulast.result = CodeDeclaresStartFunction

\* ------------------------------------------------- properties, GuestSpec
\* How an invocation that ended may have ended, given what its exports do.
GuestOutcome ==
    /\ guest.entered => guest.allocate = "return"
    /\ guest.used <= guest.limit
    /\ guest.phase = "done" =>
         /\ guest.result \in {Ok(0), ExecutionFailed, OutOfGas}
         /\ guest.result = Ok(0)
              => guest.allocate = "return" /\ guest.entry = "return"
         /\ guest.result = ExecutionFailed
              => guest.allocate = "trap"
                   \/ (guest.allocate = "return" /\ guest.entry = "trap")
         /\ guest.allocate \in {"loop", "grow"}
              => guest.result = OutOfGas /\ ~guest.entered
         /\ guest.entered /\ guest.entry \in {"loop", "grow"}
              => guest.result = OutOfGas

\* C28: under a finite gas limit every guest invocation eventually ends, by
\* returning, with ExecutionFailed or with the core out-of-gas error; an
\* export that loops or grows its memory forever ends with out of gas, and
\* the entry point is never invoked after an allocate that did not return.
C28_GuestEnds ==
    /\ []GuestOutcome
    /\ Running(guest) ~> guest.phase = "done"

C28_Witness ==
    /\ guest.phase = "done"
    /\ guest.allocate = "loop"
    /\ guest.limit = MaxGuestLimit
    /\ guest.used = guest.limit
    /\ guest.result = OutOfGas
    /\ ~guest.entered

\* ---------------------------------------------- properties, AccountsSpec
\* Everything held in denomination d, over all accounts.
Total(l, d) ==
    l.balances[Alice][d] + l.balances[Bob][d] + l.balances[Charlie][d]
      + l.balances[ADDRESS_COMMON_POOL][d]
      + l.balances[ADDRESS_FEE_ACCUMULATOR][d]

\* Between two ledgers, account x gained gain and lost loss of denomination
\* d.
Moved(old, new, x, d, loss, gain) ==
    new.balances[x][d] = old.balances[x][d] - loss + gain

\* C29: a transfer either moves exactly the amount from the sender to the
\* receiver, every other balance and every total supply as before, or fails
\* with InsufficientBalance, the sender holding less, and changes nothing;
\* the balances of every denomination keep adding up to its total supply.
C29_TransferExact ==
    /\ CheckInvariants(ledger)
    /\ \A d \in Denominations : Total(ledger, d) = ledger.total_supplies[d]
    /\ alast.kind = "transfer" =>
         LET u == alast.units
             pre == alast.pre
             short == pre.balances[alast.from][u.denomination] < u.amount
         IN /\ ledger.total_supplies = pre.total_supplies
            /\ short => alast.result = InsufficientBalance /\ ledger = pre
            /\ ~short =>
                 /\ alast.result = AccountsOk
                 /\ \A x \in Addresses, d \in Denominations :
                      Moved(pre, ledger, x, d,
                            IF x = alast.from /\ d = u.denomination
                            THEN u.amount ELSE 0,
                            IF x = alast.to /\ d = u.denomination
                            THEN u.amount ELSE 0)

C29_Witness ==
    /\ alast.kind = "transfer"
    /\ alast.result = AccountsOk
    /\ alast.from # alast.to
    /\ alast.units.amount = 2
    /\ alast.pre.balances[alast.to][alast.units.denomination] = 1
    /\ ledger.balances[alast.to][alast.units.denomination] = 3

C32_ActivationsBounded == Len(frames) <= MaxSubcallDepth + 1

\* C33: the charge to the parent of what a child consumed (its allowance less
\* what the child has left, subcalls.rs 135-137) is always covered by the
\* parent's remaining gas, whatever the allowance asked for, whatever the
\* child did and whatever was dispatched and replied to before.
C33_ChildChargeCovered ==
    pc = "ret" =>
        UseTxGasOk(ctxs[Len(ctxs) - 1],
                   ChildCharge(Top(frames).allow, RemainingGas(Top(ctxs))))

\* The child was given all the parent had left and used all of it, after an
\* earlier message of the same activation had been dealt with.
C33_Witness ==
    /\ last.kind = "returned"
    /\ last.allow = last.rem
    /\ last.allow > 0
    /\ last.child.used = last.allow
    /\ Top(frames).done > 0
    /\ RemainingGas(Top(ctxs)) = 0

\* Gas used by the contexts from level i of the stack up: the context's own
\* counter and what its open sub-calls have used and not yet charged to it.
UsedFrom(i) == SumUsed(SubSeq(ctxs, i, Len(ctxs)))

\* Every context that is open before and after a step has no more gas left
\* after it than before.
RemainingGasKept ==
    \A i \in 1..Min(Len(ctxs), Len(ctxs')) :
        RemainingGas(ctxs'[i]) <= RemainingGas(ctxs[i])

\* C34: the gas used by a transaction context, what its open sub-calls and
\* their reply handlers have used included, never exceeds its gas limit; the
\* gas its children consumed never adds up to more than it had left when the
\* processing of its ExecutionOk began; and no step of the processing gives a
\* context more remaining gas than it had.
C34_GasWithinLimit ==
    /\ [](/\ \A i \in 1..Len(ctxs) :
              /\ ctxs[i].used <= ctxs[i].limit
              /\ UsedFrom(i) <= ctxs[i].limit
          /\ \A i \in DOMAIN acct.kids : acct.kids[i] <= acct.start[i])
    /\ [][RemainingGasKept]_vars

\* The transaction's gas is used up, two units of it by a sub-call that
\* itself made a sub-call.
C34_Witness ==
    /\ last.kind = "returned"
    /\ Len(ctxs) = 1
    /\ ctxs[1].used = ctxs[1].limit
    /\ acct.kids[1] = 2
    /\ acct.dispatched >= 2

\* Messages the open activations have yet to dispatch.
RECURSIVE SumLeft(_)
SumLeft(fs) == IF fs = <<>> THEN 0 ELSE Head(fs).left + SumLeft(Tail(fs))

\* Steps a position of the processing may still take before the next
\* dispatch, return or end.
Phase(p) ==
    CASE p = "exec" -> 5
      [] p = "reply" -> 5
      [] p = "per" -> 4
      [] p = "loop" -> 2
      [] p = "ret" -> 2
      [] p = "done" -> 1
      [] OTHER -> 0

\* A measure of the work a transaction's processing may still do: the gas not
\* yet used (each unit pays for at most one message), the messages waiting,
\* the open contexts and activations, the position.
Rank ==
    IF pc = "idle" THEN 0
    ELSE 8 * (ctxs[1].limit - acct.charged) + 8 * SumLeft(frames)
         + 4 * Len(ctxs) + Len(frames) + Phase(pc)

\* C35: with subcall_dispatch >= 1 the messages dispatched in one transaction
\* number at most gas limit / subcall_dispatch, and the processing of every
\* transaction comes to its end, whatever the reply handlers emit and
\* whichever contracts call which: every step of the processing lowers a
\* measure that is never negative, so that a transaction of gas limit g takes
\* at most 8 * g + 9 steps.
C35_Terminates ==
    /\ SubcallDispatch >= 1
    /\ [](/\ pc # "idle" => acct.dispatched * SubcallDispatch <= ctxs[1].limit
          /\ Rank >= 0
          /\ Rank <= 8 * MaxGasLimit + 9)
    /\ [][pc # "idle" => Rank' < Rank]_vars

\* Under weak fairness of its steps the processing of every transaction
\* reaches its end.
EndsUnderFairness == (pc # "idle") ~> (pc = "done")

\* As many messages as the gas limit pays for were dispatched, each but the
\* first emitted by the reply handler of the one before.
C35_Witness ==
    /\ pc = "done"
    /\ last.kind = "return"
    /\ acct.dispatched * SubcallDispatch = ctxs[1].limit
    /\ Len(last.frame.replies) > 0

\* The reply handler of the emitting contract has just failed, or the
\* processing of the ExecutionOk it returned has just been refused.
ReplyFailed ==
    /\ last.kind \in {"trap", "oog", "entry"}
    /\ "of" \in DOMAIN last
    /\ last.of = "reply"
    /\ pc # "loop"

\* C36: when handle_reply fails, or the processing of what it returned fails,
\* the call of the emitting contract ends at once with that error: every
\* activation of process_execution_result in its context is gone, no message
\* is dispatched and no reply delivered afterwards, and the contexts below
\* are as they were, what earlier sub-calls committed staying in the
\* emitter's context, which fails as a whole (the transaction, or the
\* sub-call whose parent then reverts it).
C36_ReplyFailureEndsCall ==
    ReplyFailed =>
        /\ pc = Finished(ctxs)
        /\ ~res.ok
        /\ last.kind = "trap" => res = ExecutionFailed
        /\ last.kind = "oog" => res = OutOfGas
        /\ last.kind = "entry" =>
               res \in {CallDepthExceeded(EntryDepth + 1, MaxSubcallDepth),
                        OutOfGas, TooManySubcalls(last.n, MaxSubcallCount)}
        /\ \A k \in 1..Len(frames) : frames[k].ctx < Len(ctxs)
        /\ reply = NoReply
        /\ arg = NoArg
        /\ Len(ctxs) = Len(last.ctxs)
        /\ \A j \in 1..(Len(ctxs) - 1) : ctxs[j] = last.ctxs[j]
        /\ Top(ctxs).tags = Top(last.ctxs).tags
        /\ Top(ctxs).msgs = Top(last.ctxs).msgs
        /\ Len(ctxs) = 1 => pc = "done"
        /\ Len(ctxs) > 1 => pc = "ret"

\* The reply handler of a sub-call trapped while that sub-call had a message
\* left to dispatch and held what an earlier sub-call of its own committed.
C36_Witness ==
    /\ last.kind = "trap"
    /\ last.of = "reply"
    /\ last.left > 0
    /\ Len(ctxs) = 2
    /\ Top(ctxs).tags # <<>>
    /\ pc = "ret"

\* The processing of an ExecutionOk has just been refused by the depth guard
\* or by the count guard.
GuardRejected ==
    /\ last.kind = "entry"
    /\ EntryRejected
    /\ res \in {CallDepthExceeded(EntryDepth + 1, MaxSubcallDepth),
                 TooManySubcalls(last.n, MaxSubcallCount)}

ChargedUpFront ==
    /\ Top(ctxs).used = Top(last.ctxs).used + SubcallDispatch * last.n
    /\ NothingDispatched
    /\ pc = "loop" =>
          /\ Top(frames).total = last.n
          /\ Top(frames).left = last.n
          /\ Top(frames).done = 0
          /\ ~Top(frames).open

\* The dispatch charge has just failed: out of gas, nothing charged, no child
\* context opened, no message dispatched, no reply delivered.
ChargeFailed ==
    /\ EntryRejected
    /\ res = OutOfGas
    /\ ctxs = last.ctxs
    /\ reply = NoReply
    /\ \A k \in 1..Len(frames) : frames[k].ctx < Len(ctxs)

\* C38 as claimed: every ExecutionOk given to process_execution_result is
\* charged subcall_dispatch x |messages| before its first message is
\* dispatched, or the charge fails with out of gas and nothing is dispatched.
C38_ChargedPerExecutionOk ==
    last.kind = "entry" =>
        IF EntryGas >= Capped(SubcallDispatch, last.n)
        THEN ChargedUpFront
        ELSE ChargeFailed

\* C38 amended: process_execution_result charges subcall_dispatch x |messages|
\* (saturating) to the current context exactly once per ExecutionOk that
\* passes the depth guard, before the first message is dispatched, and
\* nothing for one the depth guard refuses; dispatching a message charges the
\* context nothing more; if the charge fails with out of gas, no child
\* context is opened, no message is dispatched and no reply is delivered.
C38_ChargedOnceUpFront ==
    /\ last.kind = "entry" =>
          IF last.n >= 1 /\ EntryDepth >= MaxSubcallDepth
          THEN DepthExceeded(EntryDepth) /\ ctxs = last.ctxs
          ELSE IF EntryGas >= Capped(SubcallDispatch, last.n)
          THEN ChargedUpFront
          ELSE ChargeFailed
    /\ last.kind = "dispatch" =>
          /\ RemainingGas(ctxs[Len(ctxs) - 1]) = Top(frames).rem
          /\ Top(ctxs).used = 0

\* The charge for two messages has just failed in a sub-call that had one
\* unit of gas left.
C38_Witness ==
    /\ last.kind = "entry"
    /\ last.n = 2
    /\ EntryGas = 1
    /\ Len(ctxs) = 2
    /\ ChargeFailed

\* ------------------------------------ properties, ModuleSpec (continued)
\* The contracts storage of store is consistent.
Consistent(store) ==
    /\ DOMAIN store.codes = DOMAIN store.bytecode
    /\ \A id \in DOMAIN store.codes :
          /\ id < store.next_code
          /\ store.codes[id].id = id
    /\ \A id \in DOMAIN store.insts :
          /\ id < store.next_inst
          /\ store.insts[id].id = id
          /\ store.insts[id].code_id \in DOMAIN store.codes

\* C39: in every committed state, and in the state every open context sees,
\* a Code record exists for exactly the code ids that have bytecode stored,
\* every stored code id is below the next-code-id counter and every stored
\* instance id below the next-instance-id counter, every record's id field is
\* the key it is stored under, and every Instance's code_id has a Code record.
C39_StorageConsistent ==
    /\ Consistent(chain)
    /\ \A i \in 1..Len(mctxs) : Consistent(mctxs[i].store)

\* Two codes and two instances of different codes are committed, and the
\* transaction that has just ended failed and left no trace.
C39_Witness ==
    /\ mlast.kind = "end"
    /\ ~mlast.ok
    /\ DOMAIN chain.codes = {0, 1}
    /\ DOMAIN chain.insts = {0, 1}
    /\ chain.insts[0].code_id # chain.insts[1].code_id
    /\ chain.next_code = 2
    /\ chain.next_inst = 2

\* ------------------------------------------------ properties, StorageSpec
\* C31: storage::get returns None exactly when the region the host returned
\* is (offset 0, length 0) and Some of the region's bytes otherwise; after an
\* insert of a non-empty value under a key of a store, with no remove or
\* other insert of that key since, it returns Some of that value, and after
\* a remove it returns None.
C31_GetRoundTrip ==
    klast.kind = "get" =>
        LET done == kdone[klast.store] IN
        /\ klast.result = None <=> klast.region = Region(0, 0)
        /\ klast.result # None
              => klast.result = Some(ReadRegion(klast.mem, klast.region))
        /\ klast.key \in DOMAIN done =>
              /\ (done[klast.key].some /\ done[klast.key].value # <<>>)
                    => klast.result = Some(done[klast.key].value)
              /\ ~done[klast.key].some => klast.result = None

\* A value of two bytes, inserted after the key had been removed, has come
\* back in a region at offset 0, while the same key of the other store,
\* removed, stays absent.
C31_Witness ==
    /\ klast.kind = "get"
    /\ klast.store = "Public"
    /\ klast.region = Region(0, 2)
    /\ klast.result = Some(<<1, 2>>)
    /\ klast.key \in DOMAIN kdone["Confidential"]
    /\ kdone["Confidential"][klast.key] = None
    /\ klast.key \notin DOMAIN kstore["Confidential"]

====
